---- MODULE Spec2Model ----
(***************************************************************************)
(* Model of the ReAct agent engine of ai-research-writer (src/src/agent.ts) *)
(* and of the gateway behaviour it relies on (provider.ts).                 *)
(*                                                                          *)
(* Text is modelled as a sequence of tokens.  The protocol markers          *)
(* ("Thought:", "Action:", "Action Input:", "Final Answer:",                *)
(* "Observation:"), the line break, the blank and words are tokens, so      *)
(* String.split, trim, startsWith, slice, indexOf and join are computed on  *)
(* token sequences the way the code computes them on characters.            *)
(***************************************************************************)
EXTENDS Integers, Sequences, FiniteSets, TLC

VARIABLES
    pc,         \* where the run is: "llm", "tool", "final", "done", "rejected"
    goal,       \* options.goal
    tools,      \* options.tools, an ordered list of tools
    maxSteps,   \* options.maxSteps
    step,       \* the loop counter of runAgent
    messages,   \* the conversation of the run
    steps,      \* the recorded AgentStep list
    pending,    \* the tool call awaited (tool index, input), or NoCall
    parsedNow,  \* the parse of the reply of the current iteration
    result,     \* the AgentResult returned, or NoResult
    llmCalls,   \* log: conversations handed to callLlmMultiTurn by the run
    toolCalls,  \* log: tool.execute calls with their outcome
    text,       \* the text given to parseAgentResponse, to analyzePaper or to a facade
    parsed,     \* parser harness: what parseAgentResponse returned
    modelReplies, \* the reply texts the backend behind the gateway can give
    env,        \* process.env: the value of each credential variable
    gwpc,       \* where a direct gateway call is: "idle", "awaiting", "returned", "thrown"
    gwCalled,   \* log: the backends a direct gateway call has invoked, in order
    gwOutcome,  \* what the direct gateway call returned or threw
    detected,   \* [value |-> what detectProviderName returned], once called
    facade,     \* the task facade that started the run, or "none"
    facadeResult, \* what the facade returned to its caller
    suspended,  \* the locals of the other runAgent invocation, waiting at its await
    current,    \* which of two concurrent invocations holds the run variables
    checks,     \* options.checks of analyzePaper
    analysis    \* the AnalysisResult analyzePaper returned

vars == <<pc, goal, tools, maxSteps, step, messages, steps, pending, parsedNow,
          result, llmCalls, toolCalls, text, parsed, modelReplies,
          env, gwpc, gwCalled, gwOutcome, detected, facade, facadeResult,
          suspended, current, checks, analysis>>

agentVars == <<pc, goal, tools, maxSteps, step, messages, steps, pending,
               parsedNow, result, llmCalls, toolCalls>>

parseVars == <<text, parsed>>

gatewayVars == <<env, gwpc, gwCalled, gwOutcome, detected>>

facadeVars == <<facade, facadeResult>>

concurrentVars == <<suspended, current>>

analyzeVars == <<checks, analysis>>

\* everything a step of runAgent leaves alone
otherVars == <<parseVars, modelReplies, gatewayVars, facadeVars, concurrentVars,
               analyzeVars>>

\* the value of a variable of a part of the program that is not running
NotUsed == [none |-> TRUE]

GatewayUnused ==
    /\ env = NotUsed
    /\ gwpc = "idle"
    /\ gwCalled = <<>>
    /\ gwOutcome = NotUsed
    /\ detected = NotUsed

FacadeUnused ==
    /\ facade = "none"
    /\ facadeResult = NotUsed

ConcurrentUnused ==
    /\ suspended = NotUsed
    /\ current = 0

AnalyzeUnused ==
    /\ checks = NotUsed
    /\ analysis = NotUsed

----------------------------------------------------------------------------
(* Bounds of the model *)

\* longest reply, in lines, given to the parser harness
MaxLines == 3

\* largest step ceiling a run is started with
MaxStepsBound == 2

\* how far below zero the maxSteps option of a run is drawn
MaxBelowZero == 1

----------------------------------------------------------------------------
(* Tokens and string primitives *)

NL == "\n"
SP == " "
ThoughtMarker == "Thought:"
ActionMarker == "Action:"
ActionInputMarker == "Action Input:"
FinalAnswerMarker == "Final Answer:"
ObservationMarker == "Observation:"

IsSpace(t) == t \in {NL, SP}

\* String.prototype.trim
RECURSIVE TrimStart(_)
TrimStart(s) ==
    IF s # <<>> /\ IsSpace(Head(s)) THEN TrimStart(Tail(s)) ELSE s

RECURSIVE TrimEnd(_)
TrimEnd(s) ==
    IF s # <<>> /\ IsSpace(s[Len(s)]) THEN TrimEnd(SubSeq(s, 1, Len(s) - 1)) ELSE s

Trim(s) == TrimEnd(TrimStart(s))

\* s.startsWith(marker), for a marker that is one token
StartsWith(s, marker) == s # <<>> /\ Head(s) = marker

\* s.slice(n) with n the length of the marker s starts with
SliceAfterMarker(s) == Tail(s)

\* text.indexOf(marker): the first position of the marker, 0 when there is none
IndexOf(s, marker) ==
    IF \E i \in 1..Len(s) : s[i] = marker
    THEN CHOOSE i \in 1..Len(s) : s[i] = marker /\ \A j \in 1..(i - 1) : s[j] # marker
    ELSE 0

\* text.split("\n"): always at least one line
RECURSIVE SplitLines(_)
SplitLines(s) ==
    LET k == IndexOf(s, NL) IN
    IF k = 0 THEN <<s>>
    ELSE <<SubSeq(s, 1, k - 1)>> \o SplitLines(SubSeq(s, k + 1, Len(s)))

\* lines.join("\n")
RECURSIVE JoinLines(_)
JoinLines(ls) ==
    IF ls = <<>> THEN <<>>
    ELSE IF Len(ls) = 1 THEN ls[1]
    ELSE ls[1] \o <<NL>> \o JoinLines(Tail(ls))

----------------------------------------------------------------------------
(* parseAgentResponse *)

\* an optional string field: `x || undefined`
Undefined == [defined |-> FALSE, text |-> <<>>]

OrUndefined(s) == IF s = <<>> THEN Undefined ELSE [defined |-> TRUE, text |-> s]

\* the inner loop of the "Action Input:" branch: lines j.. up to a terminator
RECURSIVE InputLines(_, _)
InputLines(lines, j) ==
    IF j > Len(lines) THEN <<>>
    ELSE LET nt == Trim(lines[j]) IN
         IF \/ StartsWith(nt, ThoughtMarker)
            \/ StartsWith(nt, ActionMarker)
            \/ StartsWith(nt, FinalAnswerMarker)
            \/ StartsWith(nt, ObservationMarker)
         THEN <<>>
         ELSE <<lines[j]>> \o InputLines(lines, j + 1)

\* mutant of FinalAnswerText: the trim() of line 78 left out
FinalAnswerTextUntrimmed(txt) ==
    LET idx == IndexOf(txt, FinalAnswerMarker) IN
    SubSeq(txt, idx + 1, Len(txt))

\* the text the "Final Answer:" branch extracts
FinalAnswerText(txt) ==
    LET idx == IndexOf(txt, FinalAnswerMarker) IN
    Trim(SubSeq(txt, idx + 1, Len(txt)))

\* mutant of ScanLines: the break of line 79 left out, the scan goes on
\* after a "Final Answer:" line
RECURSIVE ScanLinesNoBreak(_, _, _, _)
ScanLinesNoBreak(txt, lines, i, acc) ==
    IF i > Len(lines) THEN acc
    ELSE LET trimmed == Trim(lines[i]) IN
         ScanLinesNoBreak(txt, lines, i + 1,
             IF StartsWith(trimmed, ThoughtMarker)
             THEN [acc EXCEPT !.thought = Trim(SliceAfterMarker(trimmed))]
             ELSE IF StartsWith(trimmed, ActionMarker)
             THEN [acc EXCEPT !.action = Trim(SliceAfterMarker(trimmed))]
             ELSE IF StartsWith(trimmed, ActionInputMarker)
             THEN [acc EXCEPT !.actionInput =
                      Trim(JoinLines(<<Trim(SliceAfterMarker(trimmed))>>
                                     \o InputLines(lines, i + 1)))]
             ELSE IF StartsWith(trimmed, FinalAnswerMarker)
             THEN [acc EXCEPT !.finalAnswer = FinalAnswerText(txt)]
             ELSE acc)

\* the for loop over the lines, from line i with the fields found so far
RECURSIVE ScanLines(_, _, _, _)
ScanLines(txt, lines, i, acc) ==
    IF i > Len(lines) THEN acc
    ELSE LET trimmed == Trim(lines[i]) IN
         IF StartsWith(trimmed, ThoughtMarker)
         THEN ScanLines(txt, lines, i + 1,
                        [acc EXCEPT !.thought = Trim(SliceAfterMarker(trimmed))])
         ELSE IF StartsWith(trimmed, ActionMarker) /\ ~StartsWith(trimmed, ActionInputMarker)
         THEN ScanLines(txt, lines, i + 1,
                        [acc EXCEPT !.action = Trim(SliceAfterMarker(trimmed))])
         ELSE IF StartsWith(trimmed, ActionInputMarker)
         THEN LET rest == Trim(SliceAfterMarker(trimmed))
                  inputLines == <<rest>> \o InputLines(lines, i + 1)
              IN ScanLines(txt, lines, i + 1,
                           [acc EXCEPT !.actionInput = Trim(JoinLines(inputLines))])
         ELSE IF StartsWith(trimmed, FinalAnswerMarker)
         THEN [acc EXCEPT !.finalAnswer = FinalAnswerText(txt)]
         ELSE ScanLines(txt, lines, i + 1, acc)

parseAgentResponse(txt) ==
    LET r == ScanLines(txt, SplitLines(txt), 1,
                       [thought |-> <<>>, action |-> <<>>,
                        actionInput |-> <<>>, finalAnswer |-> <<>>])
    IN [thought |-> r.thought,
        action |-> OrUndefined(r.action),
        actionInput |-> OrUndefined(r.actionInput),
        finalAnswer |-> OrUndefined(r.finalAnswer)]

----------------------------------------------------------------------------
(* Parser harness: parseAgentResponse applied to bounded reply texts *)

\* the lines replies are built from (no line holds a line break)
LineVocab ==
    { <<ThoughtMarker, SP, "think">>,
      <<ActionMarker, SP, "word_count">>,
      <<ActionMarker>>,
      <<ActionInputMarker, SP, "Hello", SP, "world.">>,
      <<ActionInputMarker>>,
      <<ActionInputMarker, SP, "Hello", SP>>,
      <<FinalAnswerMarker, SP, "answer">>,
      <<FinalAnswerMarker, SP>>,
      <<SP, FinalAnswerMarker, "indented", SP>>,
      <<ThoughtMarker, SP, "done", SP, FinalAnswerMarker, SP, "inline">>,
      <<ObservationMarker, SP, "seen">>,
      <<"more">>,
      <<>> }

\* all replies of 1..n lines over the vocabulary
RECURSIVE LineSeqs(_)
LineSeqs(n) ==
    IF n = 0 THEN {<<>>}
    ELSE LET shorter == LineSeqs(n - 1) IN
         shorter \cup { Append(ls, l) : ls \in {x \in shorter : Len(x) = n - 1}, l \in LineVocab }

Texts == { JoinLines(ls) : ls \in LineSeqs(MaxLines) \ {<<>>} }

NotParsed == [none |-> TRUE]

Idle ==
    /\ pc = "idle"
    /\ goal = <<>>
    /\ tools = <<>>
    /\ maxSteps = 0
    /\ step = 0
    /\ messages = <<>>
    /\ steps = <<>>
    /\ pending = [none |-> TRUE]
    /\ parsedNow = NotParsed
    /\ result = [none |-> TRUE]
    /\ llmCalls = <<>>
    /\ toolCalls = <<>>

InitParse ==
    /\ Idle
    /\ modelReplies = {}
    /\ GatewayUnused
    /\ FacadeUnused
    /\ ConcurrentUnused
    /\ AnalyzeUnused
    /\ text \in Texts
    /\ parsed = NotParsed

ParseStep ==
    /\ parsed = NotParsed
    /\ parsed' = parseAgentResponse(text)
    /\ UNCHANGED <<text, agentVars, modelReplies, gatewayVars, facadeVars,
                   concurrentVars, analyzeVars>>

NextParse == ParseStep

SpecParse == InitParse /\ [][NextParse]_vars

----------------------------------------------------------------------------
(* The gateway: callLlmMultiTurn and callLlm *)

\* PROVIDERS: the backends in priority order
PROVIDERS ==
    << [name |-> "gemini", model |-> "gemini-2.0-flash",
        envKey |-> "GEMINI_API_KEY", altEnvKey |-> "GOOGLE_AI_API_KEY"],
       [name |-> "openai", model |-> "gpt-4o",
        envKey |-> "OPENAI_API_KEY", altEnvKey |-> ""],
       [name |-> "anthropic", model |-> "claude-sonnet-4-5-20250929",
        envKey |-> "ANTHROPIC_API_KEY", altEnvKey |-> ""] >>

\* the content texts a backend's HTTP answer can carry
BackendTexts ==
    { <<ThoughtMarker, SP, "count", SP, "it", NL,
        ActionMarker, SP, "word_count", NL,
        ActionInputMarker, SP, "Hello", SP, "world.">>,
      <<ThoughtMarker, SP, "done", NL,
        FinalAnswerMarker, SP, "Hello", SP, "world.", SP, "(2 words)">>,
      <<ActionMarker, SP, "analyze_issues", NL,
        ActionInputMarker, SP, "Hello">>,
      <<ThoughtMarker, SP, "try", NL, ActionMarker, SP, "stub_tool">>,
      <<ThoughtMarker, SP, "hmm">>,
      <<ActionMarker, SP, "word_count", NL,
        ActionInputMarker, SP, "Hello", NL,
        FinalAnswerMarker, SP, "both">>,
      <<ThoughtMarker, SP, "done", SP, FinalAnswerMarker, SP, "inline">>,
      <<ActionMarker, SP, "word_count", NL, FinalAnswerMarker, SP>>,
      <<FinalAnswerMarker, SP>>,
      <<ActionMarker, SP, "stub_tool", NL,
        ActionInputMarker, SP, "Hello", NL,
        ActionMarker, SP, "word_count">>,
      <<SP>>,
      <<>> }

\* mutant of HasContent: the "returned no content" check left out
HasContentUnchecked(txt) == TRUE

\* the check each backend call makes before it returns: if (!text) throw
HasContent(txt) == txt # <<>>

\* the reply texts a gateway call can return
Replies == { r \in BackendTexts : HasContent(r) }

\* the message of the Error thrown when no backend has a credential
NoProviderMessage == <<"No LLM provider available.">>

\* the message of the Error thrown when the backend answers with an error status
ApiErrorMessage == <<"Gemini API error (500)">>

\* the message of the Error thrown when the backend's answer has no content
NoContentMessage == <<"Gemini returned no content">>

GatewayErrors == {NoProviderMessage, ApiErrorMessage, NoContentMessage}

----------------------------------------------------------------------------
(* Tools *)

\* values a tool can throw or reject with
ErrorValue(msg) == [kind |-> "Error", message |-> msg]
StringValue(str) == [kind |-> "string", message |-> str]
Nullish == [kind |-> "nullish", message |-> <<>>]

Return(txt) == [ok |-> TRUE, value |-> txt]
Throw(v) == [ok |-> FALSE, value |-> v]

\* mutant of CountWords: split(" ") without the filter, every blank and
\* line break separates two entries
RECURSIVE CountWordsUnfiltered(_, _)
CountWordsUnfiltered(s, inWord) ==
    IF s = <<>> THEN 1
    ELSE (IF IsSpace(Head(s)) THEN 1 ELSE 0) + CountWordsUnfiltered(Tail(s), inWord)

\* text.split(/\s+/).filter(Boolean).length
RECURSIVE CountWords(_, _)
CountWords(s, inWord) ==
    IF s = <<>> THEN 0
    ELSE IF IsSpace(Head(s)) THEN CountWords(Tail(s), FALSE)
    ELSE (IF inWord THEN 0 ELSE 1) + CountWords(Tail(s), TRUE)

\* word_count.execute
WordCount(input) == <<"Word count: ", ToString(CountWords(input, FALSE))>>

word_count == [name |-> <<"word_count">>, kind |-> "word_count"]
analyze_issues == [name |-> <<"analyze_issues">>, kind |-> "llm"]
stub_tool == [name |-> <<"stub_tool">>, kind |-> "stub"]

\* what tool.execute(input) can do
Outcomes(tool, input) ==
    CASE tool.kind = "word_count" -> { Return(WordCount(input)) }
      [] tool.kind = "llm" ->
            { Return(<<"[]">>) } \cup { Throw(ErrorValue(m)) : m \in GatewayErrors }
      [] tool.kind = "stub" ->
            { Return(<<"echo", SP>> \o input), Return(<<>>),
              Throw(ErrorValue(<<"boom">>)), Throw(ErrorValue(<<>>)),
              Throw(StringValue(<<"failed">>)), Throw(Nullish) }

\* the tool sets a run is started with
ToolSets ==
    { <<word_count>>, <<analyze_issues, word_count>>, <<stub_tool>> }

Goals == { <<"Polish", SP, "this", SP, "text">> }

----------------------------------------------------------------------------
(* runAgent *)

UserMsg(content) == [role |-> "user", content |-> content]
AssistantMsg(content) == [role |-> "assistant", content |-> content]

GoalMessage(g) == <<"Goal: ">> \o g \o <<NL, NL, "Begin.">>

\* mutant of ObservationMessage: the observation text is left out
ObservationMessageBare(observation) ==
    <<ObservationMarker, SP, NL, NL, "Continue.">>

ObservationMessage(observation) ==
    <<ObservationMarker, SP>> \o observation \o <<NL, NL, "Continue.">>

CorrectiveMessage ==
    <<"Please use a tool (Action + Action Input) or provide your Final Answer.">>

MaxStepsMessage == <<"Maximum steps reached. Provide your Final Answer now.">>

\* names.join(", ")
RECURSIVE JoinNames(_)
JoinNames(ts) ==
    IF ts = <<>> THEN <<>>
    ELSE IF Len(ts) = 1 THEN ts[1].name
    ELSE ts[1].name \o <<",", SP>> \o JoinNames(Tail(ts))

\* mutant of UnknownToolObservation: only the first tool is listed
UnknownToolObservationFirstOnly(action, ts) ==
    <<"Unknown tool", ":", SP>> \o action \o <<".", SP, "Available", ":", SP>>
        \o (IF ts = <<>> THEN <<>> ELSE ts[1].name)

UnknownToolObservation(action, ts) ==
    <<"Unknown tool", ":", SP>> \o action \o <<".", SP, "Available", ":", SP>>
        \o JoinNames(ts)

\* err.message || String(err), for a value err.message can be read from
ErrMessageOrString(err) ==
    CASE err.kind = "Error" ->
            IF err.message # <<>> THEN err.message ELSE <<"Error">>
      [] err.kind = "string" -> err.message

ToolErrorObservation(err) == <<"Tool error", ":", SP>> \o ErrMessageOrString(err)

\* mutant of CatchHandlerThrows: tool.execute is called without try/catch
CatchHandlerThrowsAlways(err) == TRUE

\* reading err.message of null or undefined throws a TypeError in the catch block
CatchHandlerThrows(err) == err.kind = "nullish"

\* tools.find((t) => t.name === parsed.action): the index of the first match, or 0
FindTool(ts, action) ==
    IF \E k \in 1..Len(ts) : ts[k].name = action
    THEN CHOOSE k \in 1..Len(ts) :
             ts[k].name = action /\ \A j \in 1..(k - 1) : ts[j].name # action
    ELSE 0

\* mutant of HasFinalAnswer: the action is looked at first
HasFinalAnswerAndNoAction(p) == p.finalAnswer.defined /\ ~p.action.defined

\* if (parsed.finalAnswer)
HasFinalAnswer(p) == p.finalAnswer.defined

\* mutant of HasAction: an empty action counts as an action
HasActionAlways(p) == TRUE

\* if (parsed.action)
HasAction(p) == p.action.defined

\* mutant of ToolInput: the tool is given the tool name
ToolInputIsAction(p) == p.action.text

\* parsed.actionInput || ""
ToolInput(p) == IF p.actionInput.defined THEN p.actionInput.text ELSE <<>>

\* mutant of LoopCondition: step <= maxSteps
LoopConditionInclusive(stp, max) == stp <= max

\* the loop condition step < maxSteps
LoopCondition(stp, max) == stp < max

\* mutant of TotalSteps: the loop counter instead of steps.length
TotalStepsFromCounter(stps) == step

\* totalSteps: steps.length
TotalSteps(stps) == Len(stps)

\* mutant of ForcedFinalAnswer: the raw reply, never the parsed final answer
ForcedFinalAnswerRaw(finalParsed, responseText) == responseText

\* finalParsed.finalAnswer || finalResponse.text
ForcedFinalAnswer(finalParsed, responseText) ==
    IF finalParsed.finalAnswer.defined THEN finalParsed.finalAnswer.text
    ELSE responseText

AgentStep(p, observation) ==
    [thought |-> p.thought,
     action |-> p.action.text,
     actionInput |-> ToolInput(p),
     observation |-> observation]

AgentResult(stps, answer, response) ==
    [steps |-> stps,
     finalAnswer |-> answer,
     totalSteps |-> TotalSteps(stps),
     provider |-> response.provider,
     model |-> response.model]

NoCall == [none |-> TRUE]
NoResult == [none |-> TRUE]
NoResponse == [none |-> TRUE]

\* mutant of CallIssued: the gateway is handed the newest message only
CallIssuedLastOnly(msgs) == [messages |-> <<msgs[Len(msgs)]>>, outcome |-> NoResponse]

\* a gateway call issued with conversation msgs, not yet answered
CallIssued(msgs) == [messages |-> msgs, outcome |-> NoResponse]

\* the log with the outcome of the call in flight filled in: Return(text) or
\* Throw(error)
Answered(calls, outcome) ==
    [calls EXCEPT ![Len(calls)].outcome = outcome]

\* the log with the outcome of the tool call in flight filled in
Completed(calls, outcome) ==
    [calls EXCEPT ![Len(calls)].outcome = outcome]

\* the for statement's test with counter stp, and what follows it: the next
\* callLlmMultiTurn of the loop, or the "Maximum steps" message and the
\* forced-final callLlmMultiTurn
LoopHead(stp, msgs, calls) ==
    IF LoopCondition(stp, maxSteps)
    THEN /\ pc' = "llm"
         /\ messages' = msgs
         /\ llmCalls' = Append(calls, CallIssued(msgs))
    ELSE LET m == Append(msgs, UserMsg(MaxStepsMessage)) IN
         /\ pc' = "final"
         /\ messages' = m
         /\ llmCalls' = Append(calls, CallIssued(m))

\* steps.push, messages.push of the observation, step++, loop test
RecordStep(p, observation, calls) ==
    /\ steps' = Append(steps, AgentStep(p, observation))
    /\ step' = step + 1
    /\ LoopHead(step + 1, Append(messages, UserMsg(ObservationMessage(observation))),
                calls)

\* the locals of runAgent({goal: g, tools: t, maxSteps: m}) at its first await
StartState(g, t, m) ==
    LET msgs == <<UserMsg(GoalMessage(g))>>
        forced == Append(msgs, UserMsg(MaxStepsMessage))
        looping == LoopCondition(0, m)
    IN [pc |-> IF looping THEN "llm" ELSE "final",
        goal |-> g,
        tools |-> t,
        maxSteps |-> m,
        step |-> 0,
        messages |-> IF looping THEN msgs ELSE forced,
        steps |-> <<>>,
        pending |-> NoCall,
        parsedNow |-> NotParsed,
        result |-> NoResult,
        llmCalls |-> <<CallIssued(IF looping THEN msgs ELSE forced)>>,
        toolCalls |-> <<>>]

\* the run variables hold the locals s
Loaded(s) ==
    /\ pc = s.pc
    /\ goal = s.goal
    /\ tools = s.tools
    /\ maxSteps = s.maxSteps
    /\ step = s.step
    /\ messages = s.messages
    /\ steps = s.steps
    /\ pending = s.pending
    /\ parsedNow = s.parsedNow
    /\ result = s.result
    /\ llmCalls = s.llmCalls
    /\ toolCalls = s.toolCalls

\* runAgent up to its first await
Init ==
    /\ \E g \in Goals, t \in ToolSets, m \in (0 - MaxBelowZero)..MaxStepsBound :
         Loaded(StartState(g, t, m))
    /\ text = <<>>
    /\ parsed = NotParsed
    /\ modelReplies = Replies
    /\ GatewayUnused
    /\ FacadeUnused
    /\ ConcurrentUnused
    /\ AnalyzeUnused

Response(txt, p) == [text |-> txt, provider |-> p.name, model |-> p.model]

\* the loop's gateway call returns a reply with a final answer: return
LlmReplyFinal ==
    /\ pc = "llm"
    /\ \E r \in modelReplies, k \in 1..Len(PROVIDERS) :
         LET response == Response(r, PROVIDERS[k])
             p == parseAgentResponse(r)
         IN /\ HasFinalAnswer(p)
            /\ messages' = Append(messages, AssistantMsg(r))
            /\ llmCalls' = Answered(llmCalls, Return(r))
            /\ result' = AgentResult(steps, p.finalAnswer.text, response)
            /\ pc' = "done"
    /\ UNCHANGED <<goal, tools, maxSteps, step, steps, pending, parsedNow,
                   toolCalls, otherVars>>

\* mutant of LlmReplyDispatch: the next gateway call is issued together with
\* tool.execute, without awaiting the tool
LlmReplyDispatchSpeculative ==
    /\ pc = "llm"
    /\ \E r \in modelReplies, k \in 1..Len(PROVIDERS) :
         LET response == Response(r, PROVIDERS[k])
             p == parseAgentResponse(r)
         IN /\ ~HasFinalAnswer(p)
            /\ HasAction(p)
            /\ FindTool(tools, p.action.text) # 0
            /\ messages' = Append(messages, AssistantMsg(r))
            /\ llmCalls' = Append(Answered(llmCalls, Return(r)),
                                  CallIssued(Append(messages, AssistantMsg(r))))
            /\ parsedNow' = p
            /\ pending' = [tool |-> FindTool(tools, p.action.text),
                           input |-> ToolInput(p)]
            /\ toolCalls' = Append(toolCalls,
                                   [tool |-> FindTool(tools, p.action.text),
                                    input |-> ToolInput(p),
                                    outcome |-> NoResponse])
            /\ pc' = "tool"
    /\ UNCHANGED <<goal, tools, maxSteps, step, steps, result, otherVars>>

\* the reply names a registered tool: tool.execute is called and awaited
LlmReplyDispatch ==
    /\ pc = "llm"
    /\ \E r \in modelReplies, k \in 1..Len(PROVIDERS) :
         LET response == Response(r, PROVIDERS[k])
             p == parseAgentResponse(r)
         IN /\ ~HasFinalAnswer(p)
            /\ HasAction(p)
            /\ FindTool(tools, p.action.text) # 0
            /\ messages' = Append(messages, AssistantMsg(r))
            /\ llmCalls' = Answered(llmCalls, Return(r))
            /\ parsedNow' = p
            /\ pending' = [tool |-> FindTool(tools, p.action.text),
                           input |-> ToolInput(p)]
            /\ toolCalls' = Append(toolCalls,
                                   [tool |-> FindTool(tools, p.action.text),
                                    input |-> ToolInput(p),
                                    outcome |-> NoResponse])
            /\ pc' = "tool"
    /\ UNCHANGED <<goal, tools, maxSteps, step, steps, result, otherVars>>

\* the reply names no registered tool: the "Unknown tool" step
LlmReplyUnknownTool ==
    /\ pc = "llm"
    /\ \E r \in modelReplies, k \in 1..Len(PROVIDERS) :
         LET response == Response(r, PROVIDERS[k])
             p == parseAgentResponse(r)
         IN /\ ~HasFinalAnswer(p)
            /\ HasAction(p)
            /\ FindTool(tools, p.action.text) = 0
            /\ steps' = Append(steps,
                               AgentStep(p, UnknownToolObservation(p.action.text, tools)))
            /\ step' = step + 1
            /\ LoopHead(step + 1,
                        Append(Append(messages, AssistantMsg(r)),
                               UserMsg(ObservationMessage(
                                   UnknownToolObservation(p.action.text, tools)))),
                        Answered(llmCalls, Return(r)))
    /\ UNCHANGED <<goal, tools, maxSteps, pending, parsedNow, result, toolCalls,
                   otherVars>>

\* the reply has neither a final answer nor an action: the corrective message
LlmReplyNoAction ==
    /\ pc = "llm"
    /\ \E r \in modelReplies, k \in 1..Len(PROVIDERS) :
         LET response == Response(r, PROVIDERS[k])
             p == parseAgentResponse(r)
         IN /\ ~HasFinalAnswer(p)
            /\ ~HasAction(p)
            /\ step' = step + 1
            /\ LoopHead(step + 1,
                        Append(Append(messages, AssistantMsg(r)),
                               UserMsg(CorrectiveMessage)),
                        Answered(llmCalls, Return(r)))
    /\ UNCHANGED <<goal, tools, maxSteps, steps, pending, parsedNow, result,
                   toolCalls, otherVars>>

\* tool.execute resolves: the observation is the returned text
ToolReturn ==
    /\ pc = "tool"
    /\ \E o \in Outcomes(tools[pending.tool], pending.input) :
         /\ o.ok
         /\ toolCalls' = Completed(toolCalls, o)
         /\ RecordStep(parsedNow, o.value, llmCalls)
    /\ pending' = NoCall
    /\ parsedNow' = NotParsed
    /\ UNCHANGED <<goal, tools, maxSteps, result, otherVars>>

\* tool.execute throws or rejects and the catch block builds the observation
ToolThrow ==
    /\ pc = "tool"
    /\ \E o \in Outcomes(tools[pending.tool], pending.input) :
         /\ ~o.ok
         /\ ~CatchHandlerThrows(o.value)
         /\ toolCalls' = Completed(toolCalls, o)
         /\ RecordStep(parsedNow, ToolErrorObservation(o.value), llmCalls)
    /\ pending' = NoCall
    /\ parsedNow' = NotParsed
    /\ UNCHANGED <<goal, tools, maxSteps, result, otherVars>>

\* tool.execute throws a value whose .message cannot be read: the catch block
\* throws and runAgent rejects
ToolThrowUncaught ==
    /\ pc = "tool"
    /\ \E o \in Outcomes(tools[pending.tool], pending.input) :
         /\ ~o.ok
         /\ CatchHandlerThrows(o.value)
         /\ toolCalls' = Completed(toolCalls, o)
    /\ pc' = "rejected"
    /\ pending' = NoCall
    /\ parsedNow' = NotParsed
    /\ UNCHANGED <<goal, tools, maxSteps, step, messages, steps, result, llmCalls,
                   otherVars>>

\* a gateway call of the run fails: runAgent rejects with the gateway's error
LlmFail ==
    /\ pc \in {"llm", "final"}
    /\ \E m \in GatewayErrors :
         llmCalls' = Answered(llmCalls, Throw(ErrorValue(m)))
    /\ pc' = "rejected"
    /\ UNCHANGED <<goal, tools, maxSteps, step, messages, steps, pending,
                   parsedNow, result, toolCalls, otherVars>>

\* the forced-final gateway call returns: the result
FinalReply ==
    /\ pc = "final"
    /\ \E r \in modelReplies, k \in 1..Len(PROVIDERS) :
         LET response == Response(r, PROVIDERS[k])
             finalParsed == parseAgentResponse(r)
         IN /\ llmCalls' = Answered(llmCalls, Return(r))
            /\ result' = AgentResult(steps, ForcedFinalAnswer(finalParsed, r), response)
    /\ pc' = "done"
    /\ UNCHANGED <<goal, tools, maxSteps, step, messages, steps, pending,
                   parsedNow, toolCalls, otherVars>>

Next ==
    \/ LlmReplyFinal
    \/ LlmReplyDispatch
    \/ LlmReplyUnknownTool
    \/ LlmReplyNoAction
    \/ ToolReturn
    \/ ToolThrow
    \/ ToolThrowUncaught
    \/ LlmFail
    \/ FinalReply

Spec == Init /\ [][Next]_vars

----------------------------------------------------------------------------
(* Claims about parseAgentResponse, checked under SpecParse *)

HasToken(s, t) == \E i \in 1..Len(s) : s[i] = t

\* the lines of the reply that, trimmed, start with "Final Answer:"
FinalLines(txt) ==
    LET lines == SplitLines(txt) IN
    { k \in 1..Len(lines) : StartsWith(Trim(lines[k]), FinalAnswerMarker) }

FirstFinalLine(txt) ==
    CHOOSE k \in FinalLines(txt) : \A m \in FinalLines(txt) : k <= m

\* the text after the first "Final Answer:" of the reply, with the blanks and
\* line breaks at both ends removed
AfterFirstMarkerTrimmed(txt) ==
    LET i == CHOOSE k \in 1..Len(txt) :
                 txt[k] = FinalAnswerMarker /\ \A j \in 1..(k - 1) : txt[j] # FinalAnswerMarker
    IN Trim(SubSeq(txt, i + 1, Len(txt)))

\* C3 as stated: a reply that contains "Final Answer:" anywhere yields a
\* finalAnswer equal to the exact substring that follows the marker.
C3_AnywhereExact ==
    (parsed # NotParsed /\ HasToken(text, FinalAnswerMarker))
        => /\ parsed.finalAnswer.defined
           /\ \E i \in 1..Len(text) :
                  /\ text[i] = FinalAnswerMarker
                  /\ parsed.finalAnswer.text = SubSeq(text, i + 1, Len(text))

\* C3 amended: when some line of the reply, trimmed, starts with
\* "Final Answer:", finalAnswer is the text after the first "Final Answer:" of
\* the reply, not bounded by line ends, trimmed at both ends, and absent when
\* that is empty; when no line starts with the marker, finalAnswer is absent,
\* also when the marker stands in the middle of a line.
C3_LineStartTrimmed ==
    parsed # NotParsed
        => IF FinalLines(text) # {}
           THEN parsed.finalAnswer = OrUndefined(AfterFirstMarkerTrimmed(text))
           ELSE ~parsed.finalAnswer.defined

\* C3 witness: a final answer was extracted that runs over a line end
C3_Witness ==
    /\ parsed # NotParsed
    /\ parsed.finalAnswer.defined
    /\ HasToken(parsed.finalAnswer.text, NL)
    /\ HasToken(parsed.finalAnswer.text, FinalAnswerMarker)

\* the tool name on the last "Action:" line among the first n lines
RECURSIVE LastActionName(_, _)
LastActionName(lines, n) ==
    IF n = 0 THEN <<>>
    ELSE IF StartsWith(Trim(lines[n]), ActionMarker)
    THEN Trim(Tail(Trim(lines[n])))
    ELSE LastActionName(lines, n - 1)

\* C4 as stated: a result with a finalAnswer has no action.
C4_FinalExcludesAction ==
    (parsed # NotParsed /\ parsed.finalAnswer.defined) => ~parsed.action.defined

\* C4 amended: in a result with a finalAnswer, action is the tool name of the
\* last "Action:" line that precedes the first line starting with
\* "Final Answer:" (absent when there is no such line or it names nothing);
\* no "Action:" line after that line is extracted.
C4_ActionOnlyFromBefore ==
    (parsed # NotParsed /\ parsed.finalAnswer.defined)
        => parsed.action =
               OrUndefined(LastActionName(SplitLines(text), FirstFinalLine(text) - 1))

\* C4 witness: a result with a finalAnswer whose reply has an "Action:" line
\* naming a tool after the final-answer line and none before it
C4_Witness ==
    /\ parsed # NotParsed
    /\ parsed.finalAnswer.defined
    /\ ~parsed.action.defined
    /\ LET lines == SplitLines(text) IN
       \E k \in 1..Len(lines) :
           /\ k > FirstFinalLine(text)
           /\ StartsWith(Trim(lines[k]), ActionMarker)
           /\ Trim(Tail(Trim(lines[k]))) # <<>>

----------------------------------------------------------------------------
(* Claims about runAgent, checked under Spec and FairSpec *)

Last(q) == q[Len(q)]

Settled == pc \in {"done", "rejected"}

\* the run returned from the forced-final exchange, not from inside the loop
ReturnedForced == pc = "done" /\ Last(messages) = UserMsg(MaxStepsMessage)

\* the number of messages of a conversation that are the "Maximum steps" one
RECURSIVE CountForced(_)
CountForced(msgs) ==
    IF msgs = <<>> THEN 0
    ELSE (IF Head(msgs) = UserMsg(MaxStepsMessage) THEN 1 ELSE 0) + CountForced(Tail(msgs))

\* the reply a step from an awaited gateway call hands to the run
ReplyTaken == llmCalls'[Len(llmCalls)].outcome

\* a measure of the work done: calls issued plus calls settled
Work ==
    2 * Len(llmCalls) + 2 * Len(toolCalls)
        - (IF pc \in {"llm", "final", "tool"} THEN 1 ELSE 0)

\* a run that has not ended awaits a call that can settle
AwaitsCall ==
    \/ pc \in {"llm", "final"} /\ Last(llmCalls).outcome = NoResponse /\ modelReplies # {}
    \/ /\ pc = "tool"
       /\ Last(toolCalls).outcome = NoResponse
       /\ Outcomes(tools[pending.tool], pending.input) # {}

\* C1: with maxSteps >= 1 a run never issues more than maxSteps + 1 gateway
\* calls (maxSteps in the loop and one forced-final call); until it has ended
\* it awaits one call, and every call that settles adds to a measure of work
\* bounded by 4 * maxSteps + 2, so the run ends once its calls have settled.
C1_BoundedCalls ==
    /\ [](maxSteps >= 1 => /\ Len(llmCalls) <= maxSteps + 1
                           /\ (pc = "llm" => Len(llmCalls) <= maxSteps)
                           /\ Work <= 4 * maxSteps + 2
                           /\ Settled \/ AwaitsCall)
    /\ [][Work' > Work]_vars

\* C1 witness: a run that returned after exactly maxSteps + 1 gateway calls
C1_Witness ==
    /\ pc = "done"
    /\ maxSteps >= 1
    /\ Len(llmCalls) = maxSteps + 1

\* C2: when the reply of a loop iteration parses to a final answer, the run
\* returns in that step with that final answer: no tool is called, no step is
\* appended, no further gateway call is issued, whether or not the reply has
\* an Action line; a run that returned does nothing more.
C2_FinalAnswerReturns ==
    [][ /\ (pc = "llm" /\ ReplyTaken.ok
              /\ parseAgentResponse(ReplyTaken.value).finalAnswer.defined)
            => /\ pc' = "done"
               /\ result'.finalAnswer = parseAgentResponse(ReplyTaken.value).finalAnswer.text
               /\ result'.steps = steps
               /\ steps' = steps
               /\ toolCalls' = toolCalls
               /\ Len(llmCalls') = Len(llmCalls)
        /\ pc = "done" => UNCHANGED vars ]_vars

\* C2 witness: the run returned on a reply that also has an Action line
C2_Witness ==
    /\ pc = "done"
    /\ Last(messages).role = "assistant"
    /\ parseAgentResponse(Last(messages).content).action.defined
    /\ result.finalAnswer = <<"both">>

\* C5: a loop reply without a final answer that names a registered tool X
\* with input I makes the run call X.execute(I) once, and when X returns, the
\* run appends one step with action X, actionInput I and the returned text as
\* observation.
C5_DispatchRecordsStep ==
    [][ /\ (pc = "llm" /\ ReplyTaken.ok)
            => LET p == parseAgentResponse(ReplyTaken.value)
                   I == IF p.actionInput.defined THEN p.actionInput.text ELSE <<>>
               IN (/\ ~p.finalAnswer.defined
                   /\ p.action.defined
                   /\ \E k \in 1..Len(tools) : tools[k].name = p.action.text)
                  => /\ pc' = "tool"
                     /\ Len(toolCalls') = Len(toolCalls) + 1
                     /\ tools[Last(toolCalls').tool].name = p.action.text
                     /\ Last(toolCalls').input = I
                     /\ steps' = steps
        /\ (pc = "tool" /\ toolCalls'[Len(toolCalls)].outcome.ok)
            => LET call == toolCalls'[Len(toolCalls)] IN
               /\ Len(toolCalls') = Len(toolCalls)
               /\ call.outcome \in Outcomes(tools[call.tool], call.input)
               /\ Len(steps') = Len(steps) + 1
               /\ SubSeq(steps', 1, Len(steps)) = steps
               /\ Last(steps').action = tools[call.tool].name
               /\ Last(steps').actionInput = call.input
               /\ Last(steps').observation = call.outcome.value ]_vars

\* C5 witness: word_count was called with "Hello world." and its step recorded
C5_Witness ==
    /\ Len(steps) = 1
    /\ Len(toolCalls) = 1
    /\ steps[1].action = <<"word_count">>
    /\ steps[1].actionInput = <<"Hello", SP, "world.">>
    /\ steps[1].observation = <<"Word count: ", "2">>

\* the part of an "Unknown tool" observation that lists the tools
AvailablePart(observation) ==
    SubSeq(observation, IndexOf(observation, "Available") + 1, Len(observation))

\* C6: a loop reply naming a tool that is not in the run's tool set calls no
\* tool; the run appends a step whose observation contains "Unknown tool" and
\* every registered tool name, appends that observation to the conversation,
\* and goes on to its next gateway call instead of rejecting.
C6_UnknownToolStep ==
    [][ (pc = "llm" /\ ReplyTaken.ok)
            => LET p == parseAgentResponse(ReplyTaken.value) IN
               (/\ ~p.finalAnswer.defined
                /\ p.action.defined
                /\ \A k \in 1..Len(tools) : tools[k].name # p.action.text)
               => /\ toolCalls' = toolCalls
                  /\ Len(steps') = Len(steps) + 1
                  /\ SubSeq(steps', 1, Len(steps)) = steps
                  /\ Last(steps').action = p.action.text
                  /\ HasToken(Last(steps').observation, "Unknown tool")
                  /\ \A k \in 1..Len(tools) :
                         HasToken(AvailablePart(Last(steps').observation),
                                  tools[k].name[1])
                  /\ messages'[Len(messages) + 1] = AssistantMsg(ReplyTaken.value)
                  /\ messages'[Len(messages) + 2] =
                         UserMsg(ObservationMessage(Last(steps').observation))
                  /\ pc' \in {"llm", "final"}
                  /\ Len(llmCalls') = Len(llmCalls) + 1
                  /\ Last(llmCalls').messages = messages' ]_vars

\* C6 witness: an "Unknown tool" step in a run with two tools, loop going on
C6_Witness ==
    /\ pc = "llm"
    /\ Len(tools) = 2
    /\ steps # <<>>
    /\ HasToken(Last(steps).observation, "Unknown tool")
    /\ toolCalls = <<>>

\* C7 as stated: when the dispatched tool throws or rejects, whatever the
\* value, the run does not reject: it appends a step whose observation is
\* "Tool error" followed by the failure's message, feeds it back and goes on.
C7_ToolFailureAbsorbed ==
    [][ (pc = "tool" /\ ~toolCalls'[Len(toolCalls)].outcome.ok)
            => /\ pc' \in {"llm", "final"}
               /\ Len(steps') = Len(steps) + 1
               /\ Head(Last(steps').observation) = "Tool error"
               /\ Last(messages') = UserMsg(ObservationMessage(Last(steps').observation))
                  \/ messages'[Len(messages') - 1] =
                         UserMsg(ObservationMessage(Last(steps').observation)) ]_vars

\* C8: after maxSteps >= 1 loop iterations without a final answer the
\* conversation ends with the one "Maximum steps reached" instruction, exactly
\* one more gateway call is made on it, and the result's finalAnswer is the
\* final answer parsed from that reply, or the raw reply when there is none;
\* totalSteps is the number of recorded steps.
C8_ForcedFinal ==
    (maxSteps >= 1 /\ (pc = "final" \/ ReturnedForced))
        => /\ step = maxSteps
           /\ Len(llmCalls) = maxSteps + 1
           /\ \A i \in 1..maxSteps :
                  /\ llmCalls[i].outcome.ok
                  /\ ~parseAgentResponse(llmCalls[i].outcome.value).finalAnswer.defined
           /\ CountForced(messages) = 1
           /\ Last(messages) = UserMsg(MaxStepsMessage)
           /\ Last(llmCalls).messages = messages
           /\ pc = "final" => Last(llmCalls).outcome = NoResponse
           /\ pc = "done"
                => LET r == Last(llmCalls).outcome.value
                       fp == parseAgentResponse(r)
                   IN /\ result.finalAnswer =
                            IF fp.finalAnswer.defined THEN fp.finalAnswer.text ELSE r
                      /\ result.steps = steps
                      /\ result.totalSteps = Len(steps)
                      /\ Len(steps) <= maxSteps

\* C8 witness: a forced-final return with a parsed final answer and fewer
\* steps than maxSteps
C8_Witness ==
    /\ ReturnedForced
    /\ maxSteps = 2
    /\ result.totalSteps = 1
    /\ result.finalAnswer = <<"both">>

\* C9: every result a run returns has a non-empty finalAnswer.
C9_NonEmptyFinalAnswer == pc = "done" => result.finalAnswer # <<>>

\* C9 witness: a forced-final return whose reply had no final answer, so the
\* raw reply is the finalAnswer
C9_Witness ==
    /\ ReturnedForced
    /\ maxSteps >= 1
    /\ ~parseAgentResponse(Last(llmCalls).outcome.value).finalAnswer.defined
    /\ result.finalAnswer = Last(llmCalls).outcome.value

\* C10: in every result a run returns, totalSteps is the length of steps.
C10_TotalStepsIsLength ==
    pc = "done" => /\ result.totalSteps = Len(result.steps)
                   /\ result.steps = steps

\* C10 witness: a result with one step after two loop iterations
C10_Witness ==
    /\ pc = "done"
    /\ result.totalSteps = 1
    /\ step = 2

\* C11: the recorded steps and the tool calls of a run never outnumber
\* maxSteps, and the forced-final exchange calls no tool, appends no step and
\* no message, whatever its reply holds: it ends the run.
C11_StepsWithinBudget ==
    /\ [](maxSteps >= 0 => /\ Len(steps) <= maxSteps
                           /\ Len(toolCalls) <= maxSteps
                           /\ Len(steps) <= step)
    /\ [][pc = "final" => /\ steps' = steps
                          /\ toolCalls' = toolCalls
                          /\ messages' = messages
                          /\ Len(llmCalls') = Len(llmCalls)
                          /\ pc' \in {"done", "rejected"}]_vars

\* C11 witness: a forced-final return on a reply with an Action line, with
\* maxSteps steps recorded before it
C11_Witness ==
    /\ ReturnedForced
    /\ maxSteps >= 1
    /\ Len(steps) = maxSteps
    /\ parseAgentResponse(Last(llmCalls).outcome.value).action.defined
    /\ result.totalSteps = maxSteps

\* a reply that yields neither a final answer nor an action
IsNeither(r) ==
    LET p == parseAgentResponse(r) IN ~p.finalAnswer.defined /\ ~p.action.defined

\* C12: a loop reply with neither an action nor a final answer creates no
\* step and calls no tool; the run appends the reply and one corrective user
\* message, counts the iteration and goes on to its next gateway call; a run
\* whose replies were all of this kind is not rejected by them and returns a
\* result with zero steps.
C12_NoActionCorrective ==
    /\ [][(pc = "llm" /\ ReplyTaken.ok /\ IsNeither(ReplyTaken.value))
            => /\ steps' = steps
               /\ toolCalls' = toolCalls
               /\ LET said == <<AssistantMsg(ReplyTaken.value),
                                 [role |-> "user",
                                  content |-> <<"Please use a tool (Action + Action Input) or provide your Final Answer.">>]>>
                  IN messages' \in { messages \o said,
                                     messages \o said \o <<UserMsg(MaxStepsMessage)>> }
               /\ step' = step + 1
               /\ pc' = IF step + 1 < maxSteps THEN "llm" ELSE "final"
               /\ Len(llmCalls') = Len(llmCalls) + 1
               /\ Last(llmCalls').messages = messages']_vars
    /\ []((\A i \in 1..Len(llmCalls) :
              llmCalls[i].outcome # NoResponse
                  => llmCalls[i].outcome.ok /\ IsNeither(llmCalls[i].outcome.value))
            => /\ pc # "rejected"
               /\ steps = <<>>
               /\ toolCalls = <<>>
               /\ pc = "done" => /\ result.steps = <<>>
                                 /\ result.totalSteps = 0
                                 /\ result.finalAnswer = Last(llmCalls).outcome.value)

\* C12 witness: a run with maxSteps = 2 whose three replies all had neither
\* an action nor a final answer, returned with zero steps
C12_Witness ==
    /\ pc = "done"
    /\ maxSteps = 2
    /\ Len(llmCalls) = 3
    /\ \A i \in 1..3 : IsNeither(llmCalls[i].outcome.value)
    /\ result.totalSteps = 0

\* C13 as stated: a run is rejected only by the failure of one of its own
\* gateway calls; no tool-level event and no reply makes it reject.
C13_RejectsOnlyOnGatewayFailure ==
    pc = "rejected"
        => /\ Last(llmCalls).outcome # NoResponse
           /\ ~Last(llmCalls).outcome.ok

\* the replies of the word_count scenario
ScenarioReply1 ==
    <<ThoughtMarker, SP, "count", SP, "it", NL,
      ActionMarker, SP, "word_count", NL,
      ActionInputMarker, SP, "Hello", SP, "world.">>

ScenarioReply2 ==
    <<ThoughtMarker, SP, "done", NL,
      FinalAnswerMarker, SP, "Hello", SP, "world.", SP, "(2 words)">>

\* the number of words of a text: the tokens that are no blank and start the
\* text or follow a blank
Words(txt) ==
    Cardinality({ i \in 1..Len(txt) :
                    ~IsSpace(txt[i]) /\ (i = 1 \/ IsSpace(txt[i - 1])) })

\* C17: with tools = [word_count] and the two scenario replies the run returns
\* after exactly two gateway calls with one step, observation "Word count: 2"
\* and finalAnswer "Hello world. (2 words)"; every word_count call returns
\* "Word count: n" with n the number of whitespace-separated words of its input.
C17_WordCountScenario ==
    /\ (/\ tools = <<word_count>>
        /\ maxSteps >= 1
        /\ Len(llmCalls) >= 2
        /\ llmCalls[1].outcome = Return(ScenarioReply1)
        /\ llmCalls[2].outcome = Return(ScenarioReply2))
        => /\ pc = "done"
           /\ Len(llmCalls) = 2
           /\ Len(result.steps) = 1
           /\ result.steps[1].observation = <<"Word count: ", "2">>
           /\ result.finalAnswer = <<"Hello", SP, "world.", SP, "(2 words)">>
    /\ \A i \in 1..Len(toolCalls) :
           (tools[toolCalls[i].tool].name = <<"word_count">>
              /\ toolCalls[i].outcome # NoResponse)
           => toolCalls[i].outcome =
                  Return(<<"Word count: ", ToString(Words(toolCalls[i].input))>>)

\* C17 witness: the scenario has run to its end inside the loop
C17_Witness ==
    /\ tools = <<word_count>>
    /\ maxSteps = 2
    /\ pc = "done"
    /\ Len(llmCalls) = 2
    /\ llmCalls[1].outcome = Return(ScenarioReply1)
    /\ llmCalls[2].outcome = Return(ScenarioReply2)
    /\ result.totalSteps = 1

\* a line that ends the capture of an action input
IsTerminator(line) ==
    LET nt == Trim(line) IN
    \/ StartsWith(nt, ThoughtMarker)
    \/ StartsWith(nt, ActionMarker)
    \/ StartsWith(nt, FinalAnswerMarker)
    \/ StartsWith(nt, ObservationMarker)

\* line i is the one "Action Input:" line of the reply, lines i+1..k-1 are
\* text and line k is the first terminator after it
InputSpan(lines, i, k) ==
    /\ i < k - 1
    /\ StartsWith(Trim(lines[i]), ActionInputMarker)
    /\ \A j \in 1..Len(lines) :
          j # i => ~HasToken(lines[j], ActionInputMarker)
    /\ \A j \in 1..(i - 1) : ~StartsWith(Trim(lines[j]), FinalAnswerMarker)
    /\ \A j \in (i + 1)..(k - 1) : ~IsTerminator(lines[j]) /\ lines[j] # <<>>
    /\ IsTerminator(lines[k])

\* the text after the marker of line i up to, not including, line k
TextOfSpan(lines, i, k) ==
    JoinLines(<<SliceAfterMarker(TrimStart(lines[i]))>> \o SubSeq(lines, i + 1, k - 1))

\* C16 as stated: for a reply with one "Action Input:" line followed by lines
\* of text and then a terminator line, actionInput is exactly the text after
\* the marker up to the terminator line, newlines kept, trimmed at both ends.
C16_InputSpanExact ==
    pc = "idle" /\ parsed # NotParsed
        => LET lines == SplitLines(text) IN
           \A i, k \in 1..Len(lines) :
               InputSpan(lines, i, k)
                   => parsed.actionInput = OrUndefined(Trim(TextOfSpan(lines, i, k)))

----------------------------------------------------------------------------
(* The gateway called directly: detectProviderName, callLlm, callLlmMultiTurn *)

\* the credential variables read from process.env
EnvKeys ==
    {"GEMINI_API_KEY", "GOOGLE_AI_API_KEY", "OPENAI_API_KEY", "ANTHROPIC_API_KEY"}

\* a variable of process.env is undefined, the empty string or a key
EnvValues ==
    { Undefined,
      [defined |-> TRUE, text |-> <<>>],
      [defined |-> TRUE, text |-> <<"sk-test">>] }

Envs == [EnvKeys -> EnvValues]

\* JavaScript truthiness of a string | undefined
Truthy(v) == v.defined /\ v.text # <<>>

\* mutant of KeyOf: ?? in the place of ||, an empty envKey hides the altEnvKey
KeyOfNullish(e, p) ==
    IF e[p.envKey].defined THEN e[p.envKey]
    ELSE IF p.altEnvKey # "" THEN e[p.altEnvKey]
    ELSE Undefined

\* process.env[p.envKey] || (p.altEnvKey ? process.env[p.altEnvKey] : undefined)
KeyOf(e, p) ==
    IF Truthy(e[p.envKey]) THEN e[p.envKey]
    ELSE IF p.altEnvKey # "" THEN e[p.altEnvKey]
    ELSE Undefined

\* for (const p of PROVIDERS): the index of the first backend from i on whose
\* key is truthy, 0 when the loop runs out
RECURSIVE FirstConfigured(_, _)
FirstConfigured(e, i) ==
    IF i > Len(PROVIDERS) THEN 0
    ELSE IF Truthy(KeyOf(e, PROVIDERS[i])) THEN i
    ELSE FirstConfigured(e, i + 1)

\* the null detectProviderName returns (no backend has this name)
Null == "null"

detectProviderName(e) ==
    LET i == FirstConfigured(e, 1) IN
    IF i = 0 THEN Null ELSE PROVIDERS[i].name

\* the index of the backend with name n
ProviderNamed(n) == CHOOSE i \in 1..Len(PROVIDERS) : PROVIDERS[i].name = n

\* the errors a backend call throws: error status, or an answer without content
BackendErrors == {ApiErrorMessage, NoContentMessage}

InitGateway ==
    /\ Idle
    /\ text = <<>>
    /\ parsed = NotParsed
    /\ modelReplies = Replies
    /\ env \in Envs
    /\ gwpc = "idle"
    /\ gwCalled = <<>>
    /\ gwOutcome = NotUsed
    /\ detected = NotUsed
    /\ FacadeUnused
    /\ ConcurrentUnused
    /\ AnalyzeUnused

\* detectProviderName() is called
DetectProviderName ==
    /\ detected = NotUsed
    /\ detected' = [value |-> detectProviderName(env)]
    /\ UNCHANGED <<agentVars, parseVars, modelReplies, env, gwpc, gwCalled,
                   gwOutcome, facadeVars, concurrentVars, analyzeVars>>

\* a gateway call up to its await: the loop over PROVIDERS skips the backends
\* without a key and calls the first one with a key, or runs out and throws
CallGateway(fn) ==
    /\ gwpc = "idle"
    /\ LET i == FirstConfigured(env, 1) IN
       IF i = 0
       THEN /\ gwpc' = "thrown"
            /\ gwOutcome' = Throw(ErrorValue(NoProviderMessage))
            /\ gwCalled' = gwCalled
       ELSE /\ gwpc' = "awaiting"
            /\ gwCalled' = Append(gwCalled, [provider |-> PROVIDERS[i].name, fn |-> fn])
            /\ gwOutcome' = gwOutcome
    /\ UNCHANGED <<agentVars, parseVars, modelReplies, env, detected,
                   facadeVars, concurrentVars, analyzeVars>>

CallLlm == CallGateway("call")

CallLlmMultiTurn == CallGateway("callMultiTurn")

\* the awaited backend call returns its text: the gateway call returns
BackendReturns ==
    /\ gwpc = "awaiting"
    /\ \E r \in modelReplies :
         gwOutcome' = Return(Response(r, PROVIDERS[ProviderNamed(Last(gwCalled).provider)]))
    /\ gwpc' = "returned"
    /\ UNCHANGED <<agentVars, parseVars, modelReplies, env, gwCalled, detected,
                   facadeVars, concurrentVars, analyzeVars>>

\* mutant of BackendThrows: a try/catch around the backend call that goes on
\* with the next backend that has a key
BackendThrowsFallsBack ==
    /\ gwpc = "awaiting"
    /\ \E m \in BackendErrors :
         LET next == FirstConfigured(env, ProviderNamed(Last(gwCalled).provider) + 1) IN
         IF next = 0
         THEN /\ gwOutcome' = Throw(ErrorValue(m))
              /\ gwpc' = "thrown"
              /\ gwCalled' = gwCalled
         ELSE /\ gwOutcome' = gwOutcome
              /\ gwpc' = "awaiting"
              /\ gwCalled' = Append(gwCalled, [provider |-> PROVIDERS[next].name,
                                               fn |-> Last(gwCalled).fn])
    /\ UNCHANGED <<agentVars, parseVars, modelReplies, env, detected,
                   facadeVars, concurrentVars, analyzeVars>>

\* the awaited backend call throws: nothing catches it, the gateway call throws
BackendThrows ==
    /\ gwpc = "awaiting"
    /\ \E m \in BackendErrors :
         /\ gwOutcome' = Throw(ErrorValue(m))
         /\ gwpc' = "thrown"
         /\ gwCalled' = gwCalled
    /\ UNCHANGED <<agentVars, parseVars, modelReplies, env, detected,
                   facadeVars, concurrentVars, analyzeVars>>

NextGateway ==
    \/ DetectProviderName
    \/ CallLlm
    \/ CallLlmMultiTurn
    \/ BackendReturns
    \/ BackendThrows

SpecGateway == InitGateway /\ [][NextGateway]_vars

----------------------------------------------------------------------------
(* Claims about the gateway (SpecGateway) *)

\* a credential variable holds a key
IsSet(e, k) == e[k] \in { v \in EnvValues : v.defined /\ v.text # <<>> }

\* the backend has a credential in the environment
HasCredential(e, name) ==
    CASE name = "gemini" -> IsSet(e, "GEMINI_API_KEY") \/ IsSet(e, "GOOGLE_AI_API_KEY")
      [] name = "openai" -> IsSet(e, "OPENAI_API_KEY")
      [] name = "anthropic" -> IsSet(e, "ANTHROPIC_API_KEY")

\* the backends with a credential, in priority order
Priority == <<"gemini", "openai", "anthropic">>

ConfiguredNames(e) == SelectSeq(Priority, LAMBDA n : HasCredential(e, n))

\* the names of the backends a gateway call has invoked, in order
CalledNames == [i \in 1..Len(gwCalled) |-> gwCalled[i].provider]

\* C14 as stated: a gateway call that fails has tried every backend that has
\* a credential, in priority order.
C14_FallsBackOnFailure ==
    gwpc = "thrown" => CalledNames = ConfiguredNames(env)

\* C14: a gateway call invokes only the first backend in priority order that
\* has a credential; it returns that backend's text under that backend's name
\* and model; it fails, with no backend invoked, when no backend has a
\* credential, and fails with the backend's own error when that one backend
\* fails: a backend of lower priority is never tried.
C14_FirstConfiguredOnly ==
    LET names == ConfiguredNames(env) IN
    /\ Len(gwCalled) <= 1
    /\ gwCalled # <<>> => names # <<>> /\ CalledNames = <<names[1]>>
    /\ gwpc = "awaiting" => gwCalled # <<>>
    /\ gwpc = "returned"
         => /\ gwCalled # <<>>
            /\ gwOutcome.ok
            /\ gwOutcome.value.provider = names[1]
            /\ gwOutcome.value.text \in Replies
    /\ gwpc = "thrown"
         => IF names = <<>>
            THEN gwCalled = <<>> /\ gwOutcome = Throw(ErrorValue(NoProviderMessage))
            ELSE /\ CalledNames = <<names[1]>>
                 /\ gwOutcome \in { Throw(ErrorValue(m)) : m \in BackendErrors }

\* C14 witness: gemini and openai both have a credential, gemini's call
\* failed and the gateway call failed with openai never invoked
C14_Witness ==
    /\ gwpc = "thrown"
    /\ HasCredential(env, "gemini")
    /\ HasCredential(env, "openai")
    /\ CalledNames = <<"gemini">>
    /\ gwOutcome = Throw(ErrorValue(ApiErrorMessage))

\* the first backend in the order gemini, openai, anthropic with a credential
FirstWithCredential(e) ==
    IF HasCredential(e, "gemini") THEN "gemini"
    ELSE IF HasCredential(e, "openai") THEN "openai"
    ELSE IF HasCredential(e, "anthropic") THEN "anthropic"
    ELSE Null

\* C15: for every combination of the four credential variables,
\* detectProviderName returns the first of gemini, openai, anthropic that has
\* a credential (GOOGLE_AI_API_KEY counts for gemini), null exactly when none
\* has one, and the provider a gateway call reports in its response under the
\* same environment is the one detectProviderName names.
C15_DetectMatchesGateway ==
    /\ detected # NotUsed
         => /\ detected.value = FirstWithCredential(env)
            /\ detected.value = Null <=> \A k \in EnvKeys : ~IsSet(env, k)
    /\ gwpc = "returned"
         => /\ gwOutcome.value.provider = FirstWithCredential(env)
            /\ gwOutcome.value.provider = detectProviderName(env)
            /\ detected # NotUsed => detected.value = gwOutcome.value.provider

\* C15 witness: GEMINI_API_KEY is not set, GOOGLE_AI_API_KEY and
\* OPENAI_API_KEY are; detectProviderName and a returned gateway call both
\* name gemini
C15_Witness ==
    /\ ~IsSet(env, "GEMINI_API_KEY")
    /\ IsSet(env, "GOOGLE_AI_API_KEY")
    /\ IsSet(env, "OPENAI_API_KEY")
    /\ detected = [value |-> "gemini"]
    /\ gwpc = "returned"
    /\ gwOutcome.value.provider = "gemini"

----------------------------------------------------------------------------
(* The task facades: polish, review, translate, deAi, checkLogic, analyze,  *)
(* compress, expand, caption                                                 *)

\* a tool whose execute awaits callLlm and returns r.text
LlmTool(n) == [name |-> <<n>>, kind |-> "llm"]

createPolishTools ==
    <<analyze_issues, LlmTool("apply_fixes"), LlmTool("validate_result"), word_count>>

createReviewTools ==
    <<LlmTool("assess_novelty"), LlmTool("check_methodology"),
      LlmTool("evaluate_experiments"), LlmTool("draft_review")>>

createTranslateTools ==
    <<LlmTool("analyze_terms"), LlmTool("translate_text"), LlmTool("verify_translation")>>

createDeAiTools == <<LlmTool("detect_signatures"), LlmTool("rewrite_clean")>>

createLogicTools == <<LlmTool("scan_contradictions"), LlmTool("deep_logic_check")>>

\* [...createPolishTools().slice(0, 1), detect_ai_patterns, score_paper]
createAnalyzeTools ==
    SubSeq(createPolishTools, 1, 1)
        \o <<LlmTool("detect_ai_patterns"), LlmTool("score_paper")>>

\* const { goal, tools, maxSteps = 5 } = options
DefaultMaxSteps == 5

\* maxSteps: 3 in caption
CaptionMaxSteps == 3

MAX_INPUT_CHARS == 12000

\* a run of 4000 characters without a line break, and one of 2000, as one token
LongBlock == "(4000 characters)"
HalfBlock == "(2000 characters)"

\* the length of a token in characters
CharLength(tok) ==
    CASE tok \in {SP, NL, "#", ".", "!"} -> 1
      [] tok \in {"We", "do"} -> 2
      [] tok \in {"The", "was", "[1]"} -> 3
      [] tok = "this" -> 4
      [] tok = "can't" -> 5
      [] tok \in {"perhaps", "Methods", "Results"} -> 7
      [] tok = "conducted" -> 9
      [] tok = "experiment" -> 10
      [] tok = "(Smith, 2020)" -> 13
      [] tok = "Hello" -> 5
      [] tok = "world." -> 6
      [] tok = HalfBlock -> 2000
      [] tok = LongBlock -> 4000

RECURSIVE StringLength(_)
StringLength(str) ==
    IF str = <<>> THEN 0 ELSE CharLength(Head(str)) + StringLength(Tail(str))

\* the first n characters of a token longer than n
PrefixOf(tok, n) ==
    CASE tok = LongBlock /\ n = 2000 -> HalfBlock

\* text.slice(0, n): the first n characters of the text
RECURSIVE Slice(_, _)
Slice(txt, n) ==
    IF txt = <<>> \/ n = 0 THEN <<>>
    ELSE IF CharLength(Head(txt)) <= n
    THEN <<Head(txt)>> \o Slice(Tail(txt), n - CharLength(Head(txt)))
    ELSE <<PrefixOf(Head(txt), n)>>

truncateText(txt) ==
    IF StringLength(txt) <= MAX_INPUT_CHARS
    THEN [text |-> txt, truncated |-> FALSE]
    ELSE [text |-> Slice(txt, MAX_INPUT_CHARS)
                      \o <<NL, NL, "[... truncated at 12000 chars ...]">>,
          truncated |-> TRUE]

\* an option the caller did not give, and one the caller gave
Absent == [defined |-> FALSE, value |-> 0]
Given(v) == [defined |-> TRUE, value |-> v]

Facades ==
    {"polish", "review", "translate", "deAi", "checkLogic", "analyze",
     "compress", "expand", "caption"}

\* the options object the facade f hands to runAgent for the caller's text
\* src, the facade's own options left out by the caller
FacadeOptions(f, src) ==
    LET truncated == truncateText(src).text IN
    CASE f = "polish" ->
            [goal |-> <<"Polish this academic text to publication standard.",
                        NL, NL, "Text:", NL>> \o truncated,
             tools |-> createPolishTools, maxSteps |-> Absent]
      [] f = "review" ->
            [goal |-> <<"Review this paper as a harsh reviewer.",
                        NL, NL, "Paper:", NL>> \o truncated,
             tools |-> createReviewTools, maxSteps |-> Absent]
      [] f = "translate" ->
            [goal |-> <<"Translate this academic text.",
                        NL, NL, "Text:", NL>> \o truncated,
             tools |-> createTranslateTools, maxSteps |-> Absent]
      [] f = "deAi" ->
            [goal |-> <<"Remove all AI-generated writing signatures from this text.",
                        NL, NL, "Text:", NL>> \o truncated,
             tools |-> createDeAiTools, maxSteps |-> Absent]
      [] f = "checkLogic" ->
            [goal |-> <<"Check this academic text for logical issues.",
                        NL, NL, "Text:", NL>> \o truncated,
             tools |-> createLogicTools, maxSteps |-> Absent]
      [] f = "analyze" ->
            [goal |-> <<"Analyze this academic paper comprehensively.",
                        NL, NL, "Text:", NL>> \o truncated,
             tools |-> createAnalyzeTools, maxSteps |-> Absent]
      [] f = "compress" ->
            [goal |-> <<"Compress this academic text.",
                        NL, NL, "Text:", NL>> \o truncated,
             tools |-> createPolishTools, maxSteps |-> Absent]
      [] f = "expand" ->
            [goal |-> <<"Expand this academic text.",
                        NL, NL, "Text:", NL>> \o truncated,
             tools |-> createPolishTools, maxSteps |-> Absent]
      [] f = "caption" ->
            [goal |-> <<"Generate a publication-quality caption for: ">> \o src,
             tools |-> createPolishTools, maxSteps |-> Given(CaptionMaxSteps)]

\* mutant of MaxStepsOrDefault: the caller's maxSteps is not read
MaxStepsAlwaysDefault(opt) == DefaultMaxSteps

\* the destructuring default of runAgent: maxSteps = 5 when options.maxSteps
\* is undefined
MaxStepsOrDefault(opt) == IF opt.defined THEN opt.value ELSE DefaultMaxSteps

\* the texts callers hand to a facade
SourceTexts ==
    { <<"Hello", SP, "world.">>,
      <<LongBlock, LongBlock, LongBlock>>,
      <<LongBlock, LongBlock, LongBlock, "!">>,
      <<LongBlock, LongBlock, HalfBlock, LongBlock>> }

\* the replies of the model behind a facade run
FacadeReplies ==
    { ScenarioReply1, ScenarioReply2, <<ThoughtMarker, SP, "hmm">> }

\* a facade is called: runAgent(options) up to its first await
InitFacade ==
    /\ \E f \in Facades, src \in SourceTexts :
         LET options == FacadeOptions(f, src) IN
         /\ facade = f
         /\ Loaded(StartState(options.goal, options.tools,
                              MaxStepsOrDefault(options.maxSteps)))
         /\ text = src
    /\ facadeResult = NotUsed
    /\ modelReplies = FacadeReplies
    /\ parsed = NotParsed
    /\ GatewayUnused
    /\ ConcurrentUnused
    /\ AnalyzeUnused

\* return runAgent({...}): the facade's promise settles as runAgent's does
FacadeSettles ==
    /\ facade # "none"
    /\ facadeResult = NotUsed
    /\ pc \in {"done", "rejected"}
    /\ facadeResult' = IF pc = "done" THEN Return(result)
                       ELSE Throw(Last(llmCalls).outcome.value)
    /\ UNCHANGED <<agentVars, parseVars, modelReplies, gatewayVars, facade,
                   concurrentVars, analyzeVars>>

NextFacade ==
    \/ LlmReplyFinal
    \/ LlmReplyDispatch
    \/ LlmReplyUnknownTool
    \/ LlmReplyNoAction
    \/ ToolReturn
    \/ LlmFail
    \/ FinalReply
    \/ FacadeSettles

SpecFacade == InitFacade /\ [][NextFacade]_vars

----------------------------------------------------------------------------
(* Claims about the facades (SpecFacade) *)

\* C18: a facade other than caption gives no maxSteps and its run has the
\* ceiling 5: at most 5 iterations, 5 steps, 5 tool calls and 6 gateway calls
\* of the run; caption's run has the ceiling 3: at most 3 steps and 4 gateway
\* calls; what a facade returns is the AgentResult runAgent returned.
C18_FacadeCeilings ==
    LET ceiling == IF facade = "caption" THEN 3 ELSE 5 IN
    /\ maxSteps = ceiling
    /\ step <= ceiling
    /\ Len(steps) <= ceiling
    /\ Len(toolCalls) <= ceiling
    /\ Len(llmCalls) <= ceiling + 1
    /\ facadeResult # NotUsed
         => \/ pc = "done" /\ facadeResult = [ok |-> TRUE, value |-> result]
            \/ pc = "rejected" /\ ~facadeResult.ok

\* C18 witness: polish has returned a result with 5 steps after 6 gateway
\* calls, the last of them the forced-final one
C18_Witness ==
    /\ facade = "polish"
    /\ facadeResult = [ok |-> TRUE, value |-> result]
    /\ result.totalSteps = 5
    /\ Len(llmCalls) = 6
    /\ ReturnedForced

----------------------------------------------------------------------------
(* analyzePaper: the deterministic analysis with its check filter.           *)
(* A regular expression is modelled by the tokens and token runs it matches; *)
(* readabilityGrade, a number computed from a section's text alone, is left  *)
(* out of the sections.                                                      *)

\* longest paper, in lines, given to analyzePaper
MaxPaperLines == 2

\* the alternations of the patterns
BeVerbs == {"is", "are", "was", "were", "been", "being", "be"}
EdWords == {"conducted"}
\* the words of the alternation of a one-word pattern
PatternWords(pattern) ==
    CASE pattern = "WEAK_VERBS" ->
            {"make", "do", "get", "have", "go", "take", "give", "put", "use"}
      [] pattern = "HEDGING" ->
            {"perhaps", "maybe", "somewhat", "slightly", "relatively", "fairly",
             "rather", "quite", "possibly", "arguably"}
      [] pattern = "INFORMAL" ->
            {"a lot", "lots of", "kind of", "sort of", "stuff", "things", "really",
             "very", "pretty much", "gonna", "wanna", "gotta", "basically",
             "actually", "obviously"}
      [] pattern = "CONTRACTIONS" -> {"can't", "won't", "don't", "isn't", "it's"}
      [] pattern = "CITATION_APA" -> {"(Smith, 2020)"}
      [] pattern = "CITATION_IEEE" -> {"[1]"}
      [] pattern = "CITATION_INLINE" -> {"Smith (2020)"}

\* words that start with a capital letter, and words made of letters only
CapitalWords == {"We", "The", "Methods", "Results"}
LetterWords == CapitalWords \cup {"do", "perhaps", "was", "conducted", "experiment", "this"}

\* the lines papers are made of
PaperLines ==
    { <<"We", SP, "can't", SP, "do", SP, "this", ".">>,
      <<"The", SP, "experiment", SP, "was", SP, "conducted", ".">>,
      <<"perhaps", SP, "[1]">>,
      <<"(Smith, 2020)">>,
      <<"Methods">>,
      <<"#", SP, "Results">>,
      <<>> }

Papers ==
    { JoinLines(ls) : ls \in UNION { [1..n -> PaperLines] : n \in 1..MaxPaperLines } }

\* the first position from i on that holds no blank, Len(line) + 1 if none
RECURSIVE SkipSpaces(_, _)
SkipSpaces(line, i) ==
    IF i <= Len(line) /\ IsSpace(line[i]) THEN SkipSpaces(line, i + 1) ELSE i

\* the number of tokens the pattern matches at position i of the line, 0 for
\* no match
MatchLength(pattern, line, i) ==
    CASE pattern = "PASSIVE_VOICE" ->
            IF line[i] \in BeVerbs /\ i < Len(line) /\ IsSpace(line[i + 1])
            THEN LET j == SkipSpaces(line, i + 1)
                     k == SkipSpaces(line, j + 1)
                 IN IF /\ j < Len(line)
                       /\ line[j] = "being"
                       /\ IsSpace(line[j + 1])
                       /\ k <= Len(line)
                       /\ line[k] \in EdWords
                    THEN k - i + 1
                    ELSE IF j <= Len(line) /\ line[j] \in EdWords
                    THEN j - i + 1
                    ELSE 0
            ELSE 0
      [] OTHER -> IF line[i] \in PatternWords(pattern) THEN 1 ELSE 0

\* while ((match = re.exec(line)) !== null): the positions of the matches
\* from i on, each search starting where the match before ended
RECURSIVE Matches(_, _, _)
Matches(pattern, line, i) ==
    IF i > Len(line) THEN <<>>
    ELSE LET n == MatchLength(pattern, line, i) IN
         IF n > 0 THEN <<[index |-> i, length |-> n]>> \o Matches(pattern, line, i + n)
         ELSE Matches(pattern, line, i + 1)

\* the issues of the matches ms of line number ln
RECURSIVE MatchIssues(_, _, _, _, _, _, _)
MatchIssues(ms, line, ln, check, severity, message, suggestion) ==
    IF ms = <<>> THEN <<>>
    ELSE LET m == Head(ms) IN
         <<[line |-> ln,
            column |-> StringLength(SubSeq(line, 1, m.index - 1)) + 1,
            check |-> check,
            severity |-> severity,
            message |-> <<message, ": \"">>
                            \o SubSeq(line, m.index, m.index + m.length - 1)
                            \o <<"\"">>,
            suggestion |-> suggestion]>>
           \o MatchIssues(Tail(ms), line, ln, check, severity, message, suggestion)

\* findPatternIssues, from line number ln on
RECURSIVE findPatternIssues(_, _, _, _, _, _, _)
findPatternIssues(lines, ln, pattern, check, severity, message, suggestion) ==
    IF ln > Len(lines) THEN <<>>
    ELSE MatchIssues(Matches(pattern, lines[ln], 1), lines[ln], ln,
                     check, severity, message, suggestion)
           \o findPatternIssues(lines, ln + 1, pattern, check, severity,
                                message, suggestion)

\* (text.match(pattern) || []).length
MatchCount(pattern, txt) == Len(Matches(pattern, txt, 1))

checkCitations(lines) ==
    LET txt == JoinLines(lines)
        counts == << [name |-> "APA", count |-> MatchCount("CITATION_APA", txt)],
                     [name |-> "IEEE", count |-> MatchCount("CITATION_IEEE", txt)],
                     [name |-> "inline", count |-> MatchCount("CITATION_INLINE", txt)] >>
        styles == SelectSeq(counts, LAMBDA c : c.count > 0)
    IN (IF Len(styles) > 1
        THEN <<[line |-> 1, column |-> 1, check |-> "citations",
                severity |-> "warning",
                message |-> <<"Mixed citation styles detected: ">>
                              \o [i \in 1..Len(styles) |-> styles[i].name],
                suggestion |-> "Use a single citation style throughout the paper"]>>
        ELSE <<>>)
       \o
       (IF Len(styles) = 0
        THEN <<[line |-> 1, column |-> 1, check |-> "citations",
                severity |-> "info",
                message |-> <<"No standard citation patterns detected">>,
                suggestion |-> "Ensure citations follow APA, IEEE, or similar standard format"]>>
        ELSE <<>>)

\* SECTION_HEADER: "#", "##" or "###", blanks and a title, or a line of
\* letters and blanks that starts with a capital letter; the title matched
HeaderMatch(line) ==
    IF /\ Len(line) >= 3
       /\ line[1] \in {"#", "##", "###"}
       /\ IsSpace(line[2])
    THEN [matched |-> TRUE, title |-> SubSeq(line, SkipSpaces(line, 2), Len(line))]
    ELSE IF /\ line # <<>>
            /\ line[1] \in CapitalWords
            /\ \A i \in 1..Len(line) : line[i] \in LetterWords \/ line[i] = SP
    THEN [matched |-> TRUE, title |-> line]
    ELSE [matched |-> FALSE, title |-> <<>>]

\* match && lines[i].trim().length > 2 && lines[i].trim().length < 80
IsHeader(line) ==
    /\ HeaderMatch(line).matched
    /\ StringLength(Trim(line)) > 2
    /\ StringLength(Trim(line)) < 80

\* lines.join(" ")
RECURSIVE JoinWithSpace(_)
JoinWithSpace(ls) ==
    IF ls = <<>> THEN <<>>
    ELSE IF Len(ls) = 1 THEN ls[1]
    ELSE ls[1] \o <<SP>> \o JoinWithSpace(Tail(ls))

Section(cur, lineEnd) ==
    [name |-> cur.name,
     lineStart |-> cur.lineStart,
     lineEnd |-> lineEnd,
     wordCount |-> CountWords(JoinWithSpace(cur.lines), FALSE),
     issues |-> <<>>]

NoSection == [none |-> TRUE]

\* the loop of detectSections at (1-based) line i with the section that is open
RECURSIVE DetectFrom(_, _, _)
DetectFrom(lines, i, cur) ==
    IF i > Len(lines)
    THEN IF cur = NoSection THEN <<>> ELSE <<Section(cur, Len(lines))>>
    ELSE IF IsHeader(lines[i])
    THEN (IF cur = NoSection THEN <<>> ELSE <<Section(cur, i - 1)>>)
         \o DetectFrom(lines, i + 1,
                       [name |-> Trim(HeaderMatch(lines[i]).title),
                        lineStart |-> i,
                        lines |-> <<>>])
    ELSE IF cur = NoSection THEN DetectFrom(lines, i + 1, cur)
    ELSE DetectFrom(lines, i + 1, [cur EXCEPT !.lines = Append(cur.lines, lines[i])])

detectSections(lines) == DetectFrom(lines, 1, NoSection)

\* the first section that holds the issue's line, 0 if none
SectionOf(sections, issue) ==
    IF \E k \in 1..Len(sections) :
           issue.line >= sections[k].lineStart /\ issue.line <= sections[k].lineEnd
    THEN CHOOSE k \in 1..Len(sections) :
           /\ issue.line >= sections[k].lineStart /\ issue.line <= sections[k].lineEnd
           /\ \A j \in 1..(k - 1) :
                ~(issue.line >= sections[j].lineStart /\ issue.line <= sections[j].lineEnd)
    ELSE 0

\* for (const issue of allIssues): section.issues.push(issue)
AssignIssues(sections, allIssues) ==
    [k \in 1..Len(sections) |->
        [sections[k] EXCEPT !.issues =
            SelectSeq(allIssues, LAMBDA issue : SectionOf(sections, issue) = k)]]

AllChecks == {"grammar", "tone", "citations", "structure"}

\* the check names a caller can ask for, one of them unknown to analyzePaper
CheckNames == AllChecks \cup {"style"}

\* options.checks || ["grammar", "tone", "citations", "structure"]
ChecksOrDefault(opt) == IF opt.defined THEN opt.value ELSE AllChecks

\* mutant of Includes: every check runs whatever was asked for
IncludesAlways(chks, c) == TRUE

\* checks.includes(c)
Includes(chks, c) == c \in chks

CountSeverity(issues, severity) ==
    Len(SelectSeq(issues, LAMBDA i : i.severity = severity))

\* Math.max(0, Math.round(100 - errorCount * 5 - warningCount * 2 - infoCount * 0.5))
Score(errorCount, warningCount, infoCount) ==
    LET twice == 200 - 10 * errorCount - 4 * warningCount - infoCount
        rounded == (twice + 1) \div 2
    IN IF rounded > 0 THEN rounded ELSE 0

analyzePaper(txt, opt) ==
    LET chks == ChecksOrDefault(opt)
        lines == SplitLines(txt)
        allIssues ==
            (IF Includes(chks, "grammar")
             THEN findPatternIssues(lines, 1, "PASSIVE_VOICE", "grammar", "info",
                                    "Passive voice", "Consider active voice")
                  \o findPatternIssues(lines, 1, "WEAK_VERBS", "grammar", "info",
                                       "Weak verb", "Use a more specific verb")
             ELSE <<>>)
            \o
            (IF Includes(chks, "tone")
             THEN findPatternIssues(lines, 1, "HEDGING", "tone", "warning",
                                    "Hedging language", "Be more assertive")
                  \o findPatternIssues(lines, 1, "INFORMAL", "tone", "warning",
                                       "Informal language", "Use formal academic tone")
                  \o findPatternIssues(lines, 1, "CONTRACTIONS", "tone", "error",
                                       "Contraction in academic text",
                                       "Expand the contraction")
             ELSE <<>>)
            \o
            (IF Includes(chks, "citations") THEN checkCitations(lines) ELSE <<>>)
        sections == IF Includes(chks, "structure") THEN detectSections(lines) ELSE <<>>
        errorCount == CountSeverity(allIssues, "error")
        warningCount == CountSeverity(allIssues, "warning")
        infoCount == CountSeverity(allIssues, "info")
        score == Score(errorCount, warningCount, infoCount)
    IN [overallScore |-> score,
        totalIssues |-> Len(allIssues),
        sections |-> AssignIssues(sections, allIssues),
        issues |-> allIssues,
        summary |-> <<"Score: ", ToString(score), "/100", " | ",
                      ToString(Len(allIssues)), " issues (",
                      ToString(errorCount), " errors, ",
                      ToString(warningCount), " warnings, ",
                      ToString(infoCount), " info)", " | ",
                      IF Len(sections) > 0 THEN ToString(Len(sections)) ELSE "No",
                      " sections detected">>]

\* the options a caller gives: no checks, or a list of check names
CheckOptions ==
    { [defined |-> FALSE, value |-> {}] }
        \cup { [defined |-> TRUE, value |-> S] : S \in SUBSET CheckNames }

InitAnalyze ==
    /\ Idle
    /\ text \in Papers
    /\ parsed = NotParsed
    /\ modelReplies = {}
    /\ checks \in CheckOptions
    /\ analysis = NotUsed
    /\ GatewayUnused
    /\ FacadeUnused
    /\ ConcurrentUnused

\* analyzePaper(text, {checks}) is called and returns
AnalyzePaper ==
    /\ checks # NotUsed
    /\ analysis = NotUsed
    /\ analysis' = analyzePaper(text, checks)
    /\ UNCHANGED <<agentVars, parseVars, modelReplies, gatewayVars, facadeVars,
                   concurrentVars, checks>>

NextAnalyze == AnalyzePaper

SpecAnalyze == InitAnalyze /\ [][NextAnalyze]_vars

----------------------------------------------------------------------------
(* Claims about analyzePaper (SpecAnalyze) *)

\* the issues of check c that the paper has when every check runs
IssuesOfCheck(txt, c) ==
    SelectSeq(analyzePaper(txt, [defined |-> TRUE, value |-> {"grammar", "tone", "citations", "structure"}]).issues,
              LAMBDA i : i.check = c)

\* C20: analyzePaper(text, {checks: S}) returns only issues whose check is in
\* S: a check that was not asked for adds nothing to issues, to totalIssues
\* or to a section, and the issues returned are those of the checks asked for.
C20_OnlyRequestedChecks ==
    (analysis # NotUsed /\ checks.defined)
        => /\ \A i \in 1..Len(analysis.issues) : analysis.issues[i].check \in checks.value
           /\ analysis.totalIssues = Len(analysis.issues)
           /\ \A c \in {"grammar", "tone", "citations"} :
                Len(SelectSeq(analysis.issues, LAMBDA i : i.check = c))
                    = IF c \in checks.value THEN Len(IssuesOfCheck(text, c)) ELSE 0
           /\ \A k \in 1..Len(analysis.sections) :
                \A i \in 1..Len(analysis.sections[k].issues) :
                    analysis.sections[k].issues[i].check \in checks.value

\* C20 witness: a paper with a grammar issue and a tone issue analysed with
\* checks = ["tone"]: the tone issue is returned, the grammar issue is not
C20_Witness ==
    /\ analysis # NotUsed
    /\ checks = [defined |-> TRUE, value |-> {"tone"}]
    /\ IssuesOfCheck(text, "grammar") # <<>>
    /\ IssuesOfCheck(text, "tone") # <<>>
    /\ analysis.totalIssues = Len(IssuesOfCheck(text, "tone"))
    /\ analysis.totalIssues > 0

----------------------------------------------------------------------------
(* Two runAgent invocations whose awaits interleave.  The run variables hold *)
(* the locals of the invocation that runs; the locals of the other one wait  *)
(* in suspended.  A step of runAgent runs from one await to the next, so the *)
(* invocations can change places between any two steps.                      *)

\* largest step ceiling of the first of two concurrent runs; the second one
\* runs with the ceiling 1
MaxConcurrentSteps == 1

\* the locals of the invocation that runs
Saved ==
    [pc |-> pc, goal |-> goal, tools |-> tools, maxSteps |-> maxSteps,
     step |-> step, messages |-> messages, steps |-> steps,
     pending |-> pending, parsedNow |-> parsedNow, result |-> result,
     llmCalls |-> llmCalls, toolCalls |-> toolCalls]

\* the goal of the second invocation
ConcurrentGoals == { <<"Caption", SP, "this">> }

\* the replies of the model behind two concurrent runs
ConcurrentReplies ==
    { ScenarioReply1, ScenarioReply2,
      <<ThoughtMarker, SP, "try", NL, ActionMarker, SP, "stub_tool">>,
      <<ThoughtMarker, SP, "hmm">> }

InitConcurrent ==
    /\ \E g1 \in Goals, g2 \in ConcurrentGoals, m1 \in 1..MaxConcurrentSteps :
         /\ Loaded(StartState(g1, <<word_count>>, m1))
         /\ suspended = StartState(g2, <<stub_tool>>, 1)
    /\ current = 1
    /\ modelReplies = ConcurrentReplies
    /\ text = <<>>
    /\ parsed = NotParsed
    /\ GatewayUnused
    /\ FacadeUnused
    /\ AnalyzeUnused

\* mutant of Switch: steps is one array shared by the invocations
SwitchSharingSteps ==
    /\ current # 0
    /\ suspended.pc \notin {"done", "rejected"}
    /\ suspended' = Saved
    /\ current' = 3 - current
    /\ pc' = suspended.pc
    /\ goal' = suspended.goal
    /\ tools' = suspended.tools
    /\ maxSteps' = suspended.maxSteps
    /\ step' = suspended.step
    /\ messages' = suspended.messages
    /\ steps' = steps
    /\ pending' = suspended.pending
    /\ parsedNow' = suspended.parsedNow
    /\ result' = suspended.result
    /\ llmCalls' = suspended.llmCalls
    /\ toolCalls' = suspended.toolCalls
    /\ UNCHANGED <<parseVars, modelReplies, gatewayVars, facadeVars, analyzeVars>>

\* the event loop resumes the other invocation, which waits at its await
Switch ==
    /\ current # 0
    /\ suspended.pc \notin {"done", "rejected"}
    /\ suspended' = Saved
    /\ current' = 3 - current
    /\ pc' = suspended.pc
    /\ goal' = suspended.goal
    /\ tools' = suspended.tools
    /\ maxSteps' = suspended.maxSteps
    /\ step' = suspended.step
    /\ messages' = suspended.messages
    /\ steps' = suspended.steps
    /\ pending' = suspended.pending
    /\ parsedNow' = suspended.parsedNow
    /\ result' = suspended.result
    /\ llmCalls' = suspended.llmCalls
    /\ toolCalls' = suspended.toolCalls
    /\ UNCHANGED <<parseVars, modelReplies, gatewayVars, facadeVars, analyzeVars>>

NextConcurrent ==
    \/ LlmReplyFinal
    \/ LlmReplyDispatch
    \/ LlmReplyUnknownTool
    \/ LlmReplyNoAction
    \/ ToolReturn
    \/ ToolThrow
    \/ ToolThrowUncaught
    \/ LlmFail
    \/ FinalReply
    \/ Switch

SpecConcurrent == InitConcurrent /\ [][NextConcurrent]_vars

----------------------------------------------------------------------------
(* Claims about concurrent runs (SpecConcurrent) *)

\* the outcomes of the calls of a log that have settled
Settlements(calls) ==
    SelectSeq([i \in 1..Len(calls) |-> calls[i].outcome], LAMBDA o : o # NoResponse)

\* what a run shows of itself: where it is, its conversation, its steps and
\* what it returned
View(s) ==
    [pc |-> s.pc, step |-> s.step, messages |-> s.messages, steps |-> s.steps,
     returned |-> IF s.result = NoResult THEN <<>>
                  ELSE <<[steps |-> s.result.steps,
                          finalAnswer |-> s.result.finalAnswer,
                          totalSteps |-> s.result.totalSteps]>>]

\* the run alone after one iteration that ends with the user message said
AloneAdvance(v, m, msgs, stps) ==
    IF v.step + 1 < m
    THEN [v EXCEPT !.pc = "llm", !.step = v.step + 1, !.messages = msgs, !.steps = stps]
    ELSE [v EXCEPT !.pc = "final", !.step = v.step + 1, !.steps = stps,
                   !.messages = Append(msgs, UserMsg(MaxStepsMessage))]

\* the run started with tools t and ceiling m, alone, from the view v with
\* the parse p of its last reply: what the replies los of the model and the
\* outcomes tos of its tool calls make of it
RECURSIVE Alone(_, _, _, _, _, _)
Alone(v, p, t, m, los, tos) ==
    CASE v.pc = "llm" ->
            IF los = <<>> THEN v
            ELSE IF ~Head(los).ok THEN [v EXCEPT !.pc = "rejected"]
            ELSE LET r == Head(los).value
                     q == parseAgentResponse(r)
                     said == Append(v.messages, AssistantMsg(r))
                 IN IF q.finalAnswer.defined
                    THEN [v EXCEPT !.pc = "done", !.messages = said,
                                   !.returned = <<[steps |-> v.steps,
                                                   finalAnswer |-> q.finalAnswer.text,
                                                   totalSteps |-> Len(v.steps)]>>]
                    ELSE IF q.action.defined
                    THEN IF \E k \in 1..Len(t) : t[k].name = q.action.text
                         THEN Alone([v EXCEPT !.pc = "tool", !.messages = said],
                                    q, t, m, Tail(los), tos)
                         ELSE LET obs == UnknownToolObservation(q.action.text, t) IN
                              Alone(AloneAdvance(v, m,
                                        Append(said, UserMsg(ObservationMessage(obs))),
                                        Append(v.steps, AgentStep(q, obs))),
                                    q, t, m, Tail(los), tos)
                    ELSE Alone(AloneAdvance(v, m,
                                   Append(said, UserMsg(CorrectiveMessage)), v.steps),
                               q, t, m, Tail(los), tos)
      [] v.pc = "tool" ->
            IF tos = <<>> THEN v
            ELSE LET o == Head(tos) IN
                 IF ~o.ok /\ o.value.kind = "nullish" THEN [v EXCEPT !.pc = "rejected"]
                 ELSE LET obs == IF o.ok THEN o.value ELSE ToolErrorObservation(o.value) IN
                      Alone(AloneAdvance(v, m,
                                Append(v.messages, UserMsg(ObservationMessage(obs))),
                                Append(v.steps, AgentStep(p, obs))),
                            p, t, m, los, Tail(tos))
      [] v.pc = "final" ->
            IF los = <<>> THEN v
            ELSE IF ~Head(los).ok THEN [v EXCEPT !.pc = "rejected"]
            ELSE LET r == Head(los).value
                     q == parseAgentResponse(r)
                 IN [v EXCEPT !.pc = "done",
                              !.returned = <<[steps |-> v.steps,
                                              finalAnswer |-> IF q.finalAnswer.defined
                                                              THEN q.finalAnswer.text ELSE r,
                                              totalSteps |-> Len(v.steps)]>>]
      [] OTHER -> v

\* the run s is where the same options, replies and tool outcomes bring a
\* run that is alone
AsAlone(s) ==
    View(s) = Alone(View(StartState(s.goal, s.tools, s.maxSteps)), NotParsed,
                    s.tools, s.maxSteps,
                    Settlements(s.llmCalls), Settlements(s.toolCalls))

\* C19: with the awaits of two runAgent invocations interleaved in any order,
\* the conversation, the steps and the result of each invocation are those of
\* a run alone with its goal, its replies and its tool outcomes; its
\* conversation starts with its own goal and its steps are those of its own
\* tool calls.
C19_RunsIsolated ==
    current # 0
        => /\ AsAlone(Saved)
           /\ AsAlone(suspended)
           /\ messages[1] = UserMsg(GoalMessage(goal))
           /\ suspended.messages[1] = UserMsg(GoalMessage(suspended.goal))
           /\ \A i \in 1..Len(steps) : FindTool(tools, steps[i].action) = 0
                 \/ \E j \in 1..Len(toolCalls) :
                       /\ toolCalls[j].input = steps[i].actionInput
                       /\ tools[toolCalls[j].tool].name = steps[i].action
           /\ \A i \in 1..Len(suspended.steps) :
                 FindTool(suspended.tools, suspended.steps[i].action) = 0
                 \/ \E j \in 1..Len(suspended.toolCalls) :
                       /\ suspended.toolCalls[j].input = suspended.steps[i].actionInput
                       /\ suspended.tools[suspended.toolCalls[j].tool].name
                              = suspended.steps[i].action

\* C19 witness: both invocations have returned, each with a step of its own
\* tool; the second ran from start to end while the first waited for a reply
C19_Witness ==
    /\ current = 1
    /\ pc = "done"
    /\ suspended.pc = "done"
    /\ Len(result.steps) >= 1
    /\ Len(suspended.result.steps) >= 1
    /\ result.steps[1].action = <<"word_count">>
    /\ suspended.result.steps[1].action = <<"stub_tool">>
    /\ Len(toolCalls) >= 1
    /\ Len(suspended.toolCalls) >= 1

----------------------------------------------------------------------------
(* Claims about the conversation and the scheduling of runAgent, checked
   under Spec *)

\* a gateway call issued by the loop, as opposed to the forced-final call
IsLoopCall(c) == Last(c.messages) # UserMsg(MaxStepsMessage)

\* the user messages the loop appends after a reply
IsLoopUserMessage(m) ==
    /\ m.role = "user"
    /\ \/ m.content = CorrectiveMessage
       \/ \E i \in 1..Len(steps) :
            m.content = ObservationMessage(steps[i].observation)

InFlight(calls) ==
    Cardinality({ k \in 1..Len(calls) : calls[k].outcome = NoResponse })

\* the number of gateway calls of the log that returned a reply
Replied(calls) ==
    Cardinality({ k \in 1..Len(calls) :
                    calls[k].outcome # NoResponse /\ calls[k].outcome.ok })

\* C22: a run has at most one operation in flight: a gateway call and a tool
\* call are never pending together, two tool calls are never pending together,
\* at most one tool is invoked per model reply, and while a gateway call is
\* pending every tool call made so far has completed and its step is recorded.
C22_OneOperationInFlight ==
    /\ InFlight(llmCalls) + InFlight(toolCalls) <= 1
    /\ (pending # NoCall) <=> (InFlight(toolCalls) = 1)
    /\ Len(toolCalls) <= Replied(llmCalls)
    /\ InFlight(llmCalls) = 1 =>
         /\ pending = NoCall
         /\ Len(steps) >= Len(toolCalls)
         /\ \A k \in 1..Len(toolCalls) :
              \E i \in 1..Len(steps) :
                 /\ steps[i].action = tools[toolCalls[k].tool].name
                 /\ steps[i].actionInput = toolCalls[k].input

\* C22 witness: the second tool call of a run is pending, the first one is
\* recorded, and no gateway call is pending
C22_Witness ==
    /\ pc = "tool"
    /\ Len(toolCalls) = 2
    /\ Len(steps) = 1
    /\ InFlight(llmCalls) = 0

\* the positions of the conversation that hold an observation message
ObservationPositions(msgs) ==
    { j \in 1..Len(msgs) :
        msgs[j].role = "user" /\ StartsWith(msgs[j].content, ObservationMarker) }

\* the i-th smallest element of a finite set of numbers
RECURSIVE Nth(_, _)
Nth(S, i) ==
    LET least == CHOOSE x \in S : \A y \in S : x <= y IN
    IF i = 1 THEN least ELSE Nth(S \ {least}, i - 1)

\* C23: the conversation holds one observation message per recorded step, in
\* the order of the steps; the i-th one is "Observation: " + the observation
\* of step i + "\n\nContinue.", it directly follows an assistant reply, and
\* every gateway call issued after the step was recorded is handed it.
C23_ObservationFollowsReply ==
    LET pos == ObservationPositions(messages) IN
    /\ Cardinality(pos) = Len(steps)
    /\ \A i \in 1..Len(steps) :
         LET j == Nth(pos, i) IN
         /\ j >= 2 * i + 1
         /\ messages[j].content =
                <<ObservationMarker, SP>> \o steps[i].observation
                    \o <<NL, NL, "Continue.">>
         /\ messages[j - 1].role = "assistant"
         /\ HasAction(parseAgentResponse(messages[j - 1].content))
         /\ parseAgentResponse(messages[j - 1].content).action.text = steps[i].action
         /\ \A k \in 1..Len(llmCalls) :
              Len(llmCalls[k].messages) >= j
                  => llmCalls[k].messages[j] = messages[j]
    /\ InFlight(llmCalls) = 1 =>
         \A j \in pos : j <= Len(Last(llmCalls).messages)

\* C23 witness: two steps are recorded and the gateway call in flight holds
\* both observations
C23_Witness ==
    /\ Len(steps) = 2
    /\ InFlight(llmCalls) = 1
    /\ Cardinality(ObservationPositions(Last(llmCalls).messages)) = 2
    /\ steps[1].observation # steps[2].observation

\* the roles of a conversation start with user and alternate
Alternates(msgs) ==
    /\ msgs[1].role = "user"
    /\ \A j \in 1..(Len(msgs) - 1) : msgs[j].role # msgs[j + 1].role

\* C26 as stated: in every conversation handed to the gateway, the
\* forced-final call included, the first message is a user message and no two
\* consecutive messages have the same role.
C26_RolesAlternate ==
    \A k \in 1..Len(llmCalls) : Alternates(llmCalls[k].messages)

\* C28: a gateway failure raised by the callLlm of a tool is absorbed: the
\* step is recorded with the observation "Tool error: " + the gateway's
\* message, the observation is sent on, and the next gateway call of the run
\* is issued; the same failure in a gateway call of the run itself rejects it.
C28_NestedFailureAbsorbed ==
    [][ /\ ( /\ pc = "tool"
             /\ tools[pending.tool].kind = "llm"
             /\ ~toolCalls'[Len(toolCalls)].outcome.ok )
          => LET failure == toolCalls'[Len(toolCalls)].outcome.value
                 observation == <<"Tool error", ":", SP>> \o failure.message
             IN /\ failure.message \in GatewayErrors
                /\ pc' \in {"llm", "final"}
                /\ steps' = Append(steps, [thought |-> parsedNow.thought,
                                           action |-> tools[pending.tool].name,
                                           actionInput |-> pending.input,
                                           observation |-> observation])
                /\ Len(llmCalls') = Len(llmCalls) + 1
                /\ Last(llmCalls').outcome = NoResponse
                /\ \E j \in 1..Len(Last(llmCalls').messages) :
                     Last(llmCalls').messages[j] =
                         UserMsg(ObservationMessage(observation))
        /\ ( /\ pc \in {"llm", "final"}
             /\ ~llmCalls'[Len(llmCalls)].outcome.ok )
          => /\ pc' = "rejected"
             /\ steps' = steps
             /\ Len(llmCalls') = Len(llmCalls) ]_vars

\* C28 witness: analyze_issues failed with a gateway error, its step is
\* recorded and the loop has issued its next gateway call
C28_Witness ==
    /\ pc = "llm"
    /\ Len(steps) = 1
    /\ steps[1].action = <<"analyze_issues">>
    /\ steps[1].observation = <<"Tool error", ":", SP>> \o NoProviderMessage
    /\ InFlight(llmCalls) = 1
    /\ Len(llmCalls) = 2

\* the reply holds "Final Answer:" and nothing but whitespace after it
BlankFinal(r) ==
    /\ HasToken(r, FinalAnswerMarker)
    /\ \A j \in (IndexOf(r, FinalAnswerMarker) + 1)..Len(r) : IsSpace(r[j])

\* C29: a reply of the loop whose "Final Answer:" is followed by nothing but
\* whitespace does not end the run: an action named on an earlier line is
\* dispatched (or recorded as an unknown tool), without one the corrective
\* instruction is appended; and a return from inside the loop never carries
\* an empty finalAnswer.
C29_BlankFinalAnswerContinues ==
    [][ /\ ( /\ pc = "llm"
             /\ ReplyTaken.ok
             /\ BlankFinal(ReplyTaken.value) )
          => LET r == ReplyTaken.value
                 lines == SplitLines(r)
                 name == LastActionName(lines, Len(lines))
             IN /\ pc' \in {"llm", "tool", "final"}
                /\ result' = NoResult
                /\ messages'[Len(messages) + 1] = AssistantMsg(r)
                /\ IF name # <<>>
                   THEN \/ /\ pc' = "tool"
                           /\ tools[pending'.tool].name = name
                           /\ Len(toolCalls') = Len(toolCalls) + 1
                        \/ /\ FindTool(tools, name) = 0
                           /\ Len(steps') = Len(steps) + 1
                           /\ Last(steps').action = name
                   ELSE /\ messages'[Len(messages) + 2] = UserMsg(CorrectiveMessage)
                        /\ steps' = steps
                        /\ toolCalls' = toolCalls
        /\ (pc = "llm" /\ pc' = "done") => result'.finalAnswer # <<>> ]_vars

\* C29 witness: the reply "Action: word_count\nFinal Answer: " was dispatched
\* and recorded as a step, and a reply "Final Answer: " was answered with the
\* corrective instruction
C29_Witness ==
    /\ Len(steps) = 1
    /\ Len(messages) >= 5
    /\ messages[2] = AssistantMsg(<<ActionMarker, SP, "word_count", NL,
                                    FinalAnswerMarker, SP>>)
    /\ steps[1].action = <<"word_count">>
    /\ messages[4] = AssistantMsg(<<FinalAnswerMarker, SP>>)
    /\ messages[5] = UserMsg(CorrectiveMessage)

\* C30: with maxSteps <= 0 the loop body never runs: the run makes exactly one
\* gateway call, on the goal message followed by the "Maximum steps reached"
\* message, invokes no tool, and its result has no steps and totalSteps 0.
C30_NoBudgetNoLoop ==
    maxSteps <= 0 =>
        /\ pc \in {"final", "done", "rejected"}
        /\ Len(llmCalls) = 1
        /\ llmCalls[1].messages =
               <<UserMsg(GoalMessage(goal)), UserMsg(MaxStepsMessage)>>
        /\ toolCalls = <<>>
        /\ steps = <<>>
        /\ step = 0
        /\ pc = "done" =>
             /\ result.steps = <<>>
             /\ result.totalSteps = 0
             /\ llmCalls[1].outcome.ok

\* C30 witness: a run with a negative maxSteps has returned
C30_Witness ==
    /\ maxSteps < 0
    /\ pc = "done"
    /\ result.totalSteps = 0
    /\ Len(llmCalls) = 1

----------------------------------------------------------------------------
(* Claims about the reasoning and the action pair of a reply, checked under
   SpecParse *)

\* a line that starts with one of the protocol's markers
IsMarkerLine(line) ==
    IsTerminator(line) \/ StartsWith(Trim(line), ActionInputMarker)

\* the lines of the reply that, trimmed, start with "Thought:"
ThoughtLines(lines) ==
    { k \in 1..Len(lines) : StartsWith(Trim(lines[k]), ThoughtMarker) }

\* the first marker line after line i, or the line after the last one
NextMarkerLine(lines, i) ==
    IF \E k \in (i + 1)..Len(lines) : IsMarkerLine(lines[k])
    THEN CHOOSE k \in (i + 1)..Len(lines) :
             IsMarkerLine(lines[k]) /\ \A j \in (i + 1)..(k - 1) : ~IsMarkerLine(lines[j])
    ELSE Len(lines) + 1

\* C24 as stated: the thought of a reply with a "Thought:" line is the text
\* after the first "Thought:" marker up to the next line that starts with a
\* marker, trimmed, also with several "Thought:" lines and with reasoning
\* that continues on the following lines.
C24_FirstThoughtSpan ==
    pc = "idle" /\ parsed # NotParsed
        => LET lines == SplitLines(text)
               first == Nth(ThoughtLines(lines), 1)
           IN ThoughtLines(lines) # {}
                  => parsed.thought =
                         Trim(TextOfSpan(lines, first, NextMarkerLine(lines, first)))

\* the lines of the reply that name the tool in an "Action:" line
ActionLinesNaming(lines, name) ==
    { a \in 1..Len(lines) :
        /\ StartsWith(Trim(lines[a]), ActionMarker)
        /\ Trim(SliceAfterMarker(Trim(lines[a]))) = name }

\* the input captured from the "Action Input:" line that directly follows
\* line a, or the empty text when no such line follows
OwnInput(lines, a) ==
    IF a < Len(lines) /\ StartsWith(Trim(lines[a + 1]), ActionInputMarker)
    THEN Trim(JoinLines(<<Trim(SliceAfterMarker(Trim(lines[a + 1])))>>
                        \o InputLines(lines, a + 2)))
    ELSE <<>>

\* C27 as stated: the input a tool is invoked with is the Action Input that
\* directly follows an "Action:" line of the reply naming that tool (the empty
\* text when that Action has no input of its own), never the input written
\* for another Action.
C27_InputFromSamePair ==
    [][ (pc = "llm" /\ pc' = "tool")
          => LET lines == SplitLines(ReplyTaken.value)
                 name == tools[pending'.tool].name
             IN \E a \in ActionLinesNaming(lines, name) :
                   pending'.input = OwnInput(lines, a) ]_vars

----------------------------------------------------------------------------
(* Claims about the source text a facade embeds in the goal (SpecFacade) *)

\* the caller's text, capped as the claim says: unchanged up to 12000
\* characters, else its first 12000 characters and the truncation marker
Capped(src) ==
    IF StringLength(src) <= 12000 THEN src
    ELSE Slice(src, 12000) \o <<NL, NL, "[... truncated at 12000 chars ...]">>

\* the goal ends with the text c
GoalEndsWith(c) ==
    /\ Len(goal) >= Len(c)
    /\ SubSeq(goal, Len(goal) - Len(c) + 1, Len(goal)) = c

\* C25 as stated: the goal every facade hands to runAgent embeds the caller's
\* text capped: a text of at most 12000 characters unchanged, a longer one cut
\* to its first 12000 characters followed by the truncation marker.
C25_GoalTextCapped ==
    facade # "none" =>
        /\ GoalEndsWith(Capped(text))
        /\ StringLength(text) > 12000 => ~GoalEndsWith(text)

====
